---- MODULE Spec2Model ----
(***************************************************************************)
(* State-machine model of src/monitor.py (GitHubPortalMonitor).            *)
(*                                                                         *)
(* JSON / Python values are tagged tuples, tag first:                      *)
(*   <<"null">>  <<"bool", b>>  <<"num", n>>  <<"str", s>>                 *)
(*   <<"list", <<v1, ..., vn>> >>                                          *)
(*   <<"obj", << <<k1, v1>>, ..., <<kn, vn>> >> >>   (insertion order)     *)
(* Python's None is <<"null">>.  Dict keys are strings (course codes and   *)
(* year labels are strings, spec section 3).                               *)
(***************************************************************************)
EXTENDS Integers, Sequences, FiniteSets, TLC

VARIABLES
    pc,             \* position inside run_monitoring
    run,            \* number of the current run (1-based)
    portal,         \* index of the portal content served during this run
    file,           \* content of previous_data.json on disk
    fileAtStart,    \* content of the file when the current run started
    summary,        \* fetch_summary_data's local dict being filled
    courses,        \* list(courses) returned by extract_courses_and_years
    years,          \* years returned by extract_courses_and_years
    detailed_data,  \* fetch_detailed_data's snapshot being assembled
    idx,            \* index of the current call inside its loop (1-based)
    attempt,        \* make_api_request's loop variable (0..2)
    slept,          \* sleep time elapsed since the last HTTP attempt
    lastCall,       \* <<attempts, success>> of the make_api_request that has
                    \* just returned; <<0, FALSE>> once the caller moved on
    callLog,        \* the make_api_request calls of this run, in order
    previous_data,  \* result of load_previous_data
    changes,        \* result of detect_changes
    emails,         \* send_email attempts of this run: <<changes, delivered>>
    fileReads,      \* reads of the state file in this run
    fileWrites,     \* opens-for-writing of the state file in this run
    outcome,        \* how the run ended
    saveResult,     \* what save_current_data did in this run
    raisedAt,       \* the step whose exception reached the top-level handler
    failedCalls,    \* calls that exhausted their attempts although the
                    \* portal held a successful answer, over all runs
    prevLog         \* the calls of the run before, kept where a run is
                    \* compared with the run before it (RepeatRun)

vars == <<pc, run, portal, file, fileAtStart, summary, courses, years,
          detailed_data, idx, attempt, slept, lastCall, callLog,
          previous_data, changes, emails, fileReads, fileWrites, outcome,
          saveResult, raisedAt, failedCalls, prevLog>>

----------------------------------------------------------------------------
(* Bounds: the runs of the monitor in one behaviour, and the calls that    *)
(* may exhaust their attempts, over all runs, although the portal holds a  *)
(* successful answer for them.                                             *)

MaxRuns == 2
MaxFailedCalls == 2

(* Bound of the comparisons checked on their own: the length of the lists   *)
(* inside the records that are compared.                                    *)

MaxLen == 2

(* Program constants: range(3) in make_api_request, time.sleep(2) between  *)
(* attempts, time.sleep(1) after a summary call, time.sleep(2) after a     *)
(* detailed call.                                                          *)

\* A fourth attempt: range(4).
MaxAttemptsOffByOne == 3 + 1
MaxAttempts == 3
RetryDelay == 2
SummaryDelay == 1
DetailDelay == 2

----------------------------------------------------------------------------
(* JSON values, and the Python objects made of them.  A dict is          *)
(* <<"obj", items>> with its items in insertion order; an item is          *)
(* <<name, value>> when its key is the str name, and <<"key", k, value>>   *)
(* when its key k is None, a bool or a number (a course code that is no    *)
(* string, line 118).                                                      *)

JNull == <<"null">>
JBool(b) == <<"bool", b>>
JNum(n) == <<"num", n>>
JStr(s) == <<"str", s>>
JList(s) == <<"list", s>>
JObj(pairs) == <<"obj", pairs>>
EmptyObj == JObj(<<>>)
EmptyList == JList(<<>>)

Kind(v) == v[1]
IsObj(v) == Kind(v) = "obj"

\* Python truth value of a JSON-derived object.
Truthy(v) ==
    CASE Kind(v) = "null" -> FALSE
      [] Kind(v) = "bool" -> v[2]
      [] Kind(v) = "num"  -> v[2] # 0
      [] Kind(v) = "str"  -> v[2] # ""
      [] OTHER            -> Len(v[2]) > 0

\* The key and the value of a dict item, and the item of a key.
KeyOf(item) == IF Len(item) = 2 THEN JStr(item[1]) ELSE item[2]
ValueOf(item) == item[Len(item)]
MkItem(k, value) ==
    IF Kind(k) = "str" THEN <<k[2], value>> ELSE <<"key", k, value>>

\* Python: hash(v) is defined (None, bool, number, str).
Hashable(v) == Kind(v) \notin {"list", "obj"}

\* Python: a == b for two hashable values; True == 1 and False == 0.
IsNumber(v) == Kind(v) \in {"num", "bool"}
NumberOf(v) == IF Kind(v) = "bool" THEN (IF v[2] THEN 1 ELSE 0) ELSE v[2]
SameKey(a, b) ==
    \/ a = b
    \/ IsNumber(a) /\ IsNumber(b) /\ NumberOf(a) = NumberOf(b)

\* dict: k in d, d.get(k, default) and d[k] = value for any hashable key k
\* (an existing key keeps its position and its key object).  The dict is
\* bound by a quantifier over {d}, so that it is evaluated once however
\* often the items are visited.
HasItem(d, k) ==
    \E dict \in {d} : \E i \in 1..Len(dict[2]) : SameKey(KeyOf(dict[2][i]), k)
Item(d, k, default) ==
    CHOOSE value \in
        { IF \E i \in 1..Len(dict[2]) : SameKey(KeyOf(dict[2][i]), k)
          THEN ValueOf(dict[2][CHOOSE i \in 1..Len(dict[2]) :
                                  SameKey(KeyOf(dict[2][i]), k)])
          ELSE default : dict \in {d} } : TRUE
SetItem(d, k, value) ==
    CHOOSE new \in
        { IF \E i \in 1..Len(dict[2]) : SameKey(KeyOf(dict[2][i]), k)
          THEN JObj([i \in 1..Len(dict[2]) |->
                       IF SameKey(KeyOf(dict[2][i]), k)
                       THEN MkItem(KeyOf(dict[2][i]), value) ELSE dict[2][i]])
          ELSE JObj(Append(dict[2], MkItem(k, value))) : dict \in {d} } : TRUE

\* dict: key in d, for the str key
HasKey(d, key) == HasItem(d, JStr(key))

\* dict.get(key, default), for the str key
Get(d, key, default) == Item(d, JStr(key), default)

\* d[key] = value, for the str key
Put(d, key, value) == SetItem(d, JStr(key), value)

\* The keys of a dict.
KeySet(d) == {KeyOf(d[2][i]) : i \in 1..Len(d[2])}

\* len(v) is defined for str, list and dict only
HasLen(v) == Kind(v) \in {"list", "obj"} \/ Kind(v) = "str"

----------------------------------------------------------------------------
(* Strings: TLA+ strings are atomic, so the characters of the strings that  *)
(* the code searches or builds are given by a table.                        *)

Chars(s) ==
    CASE s = ""          -> <<>>
      [] s = "2023/2024" -> <<"2","0","2","3","/","2","0","2","4">>
      [] s = "2021/2022" -> <<"2","0","2","1","/","2","0","2","2">>
      [] s = "2019/2020" -> <<"2","0","1","9","/","2","0","2","0">>
      [] s = "2022"      -> <<"2","0","2","2">>
      [] s = "2023"      -> <<"2","0","2","3">>
      [] s = "2024"      -> <<"2","0","2","4">>
      [] s = "2025"      -> <<"2","0","2","5">>
      [] s = "available_courses" ->
           <<"a","v","a","i","l","a","b","l","e","_","c","o","u","r","s","e","s">>
      [] s = "available_years" ->
           <<"a","v","a","i","l","a","b","l","e","_","y","e","a","r","s">>
      [] s = "CS101" ->
           <<"C","S","1","0","1">>
      [] s = "MA102" ->
           <<"M","A","1","0","2">>
      [] s = "3.2" ->
           <<"3",".","2">>
      [] s = "3.5" ->
           <<"3",".","5">>
      [] s = "not graded" ->
           <<"n","o","t"," ","g","r","a","d","e","d">>
      [] s = "None" ->
           <<"N","o","n","e">>
      [] s = "True" ->
           <<"T","r","u","e">>
      [] s = "False" ->
           <<"F","a","l","s","e">>
      [] s = "grades" ->
           <<"g","r","a","d","e","s">>
      [] s = "attendance" ->
           <<"a","t","t","e","n","d","a","n","c","e">>
      [] s = "transcript" ->
           <<"t","r","a","n","s","c","r","i","p","t">>
      [] s = "grade" ->
           <<"g","r","a","d","e">>
      [] s = "midterm" ->
           <<"m","i","d","t","e","r","m">>
      [] s = "warning" ->
           <<"w","a","r","n","i","n","g">>
      [] s = "gpa" ->
           <<"g","p","a">>
      [] s = "course" ->
           <<"c","o","u","r","s","e">>
      [] s = " Initial data fetch - monitoring started!" ->
           <<" ","I","n","i","t","i","a","l"," ","d","a","t","a"," ","f","e","t","c","h"," ","-"," ","m","o","n","i","t","o","r","i","n","g"," ","s","t","a","r","t","e","d","!">>
      [] s = " " ->
           <<" ">>
      [] s = " summary updated" ->
           <<" ","s","u","m","m","a","r","y"," ","u","p","d","a","t","e","d">>
      [] s = " new grade entries for " ->
           <<" ","n","e","w"," ","g","r","a","d","e"," ","e","n","t","r","i","e","s"," ","f","o","r"," ">>
      [] s = " New midterm results for " ->
           <<" ","N","e","w"," ","m","i","d","t","e","r","m"," ","r","e","s","u","l","t","s"," ","f","o","r"," ">>
      [] s = " Grade changes detected for " ->
           <<" ","G","r","a","d","e"," ","c","h","a","n","g","e","s"," ","d","e","t","e","c","t","e","d"," ","f","o","r"," ">>
      [] s = " new attendance entries for " ->
           <<" ","n","e","w"," ","a","t","t","e","n","d","a","n","c","e"," ","e","n","t","r","i","e","s"," ","f","o","r"," ">>
      [] s = " New attendance warnings for " ->
           <<" ","N","e","w"," ","a","t","t","e","n","d","a","n","c","e"," ","w","a","r","n","i","n","g","s"," ","f","o","r"," ">>
      [] s = " GPA updated for " ->
           <<" ","G","P","A"," ","u","p","d","a","t","e","d"," ","f","o","r"," ">>
      [] s = ": " ->
           <<":"," ">>
      [] s = " new courses in " ->
           <<" ","n","e","w"," ","c","o","u","r","s","e","s"," ","i","n"," ">>
      [] s = " transcript" ->
           <<" ","t","r","a","n","s","c","r","i","p","t">>

\* Python: sub in text, for two strings
Substring(sub, text) ==
    LET a == Chars(sub)
        b == Chars(text)
    IN \E off \in 0..(Len(b) - Len(a)) :
          \A i \in 1..Len(a) : b[off + i] = a[i]

\* Python: sub in text, for two sequences of characters
Contains(a, b) ==
    \E off \in 0..(Len(b) - Len(a)) :
       \A i \in 1..Len(a) : b[off + i] = a[i]

UpperLetters ==
    <<"A","B","C","D","E","F","G","H","I","J","K","L","M",
      "N","O","P","Q","R","S","T","U","V","W","X","Y","Z">>
LowerLetters ==
    <<"a","b","c","d","e","f","g","h","i","j","k","l","m",
      "n","o","p","q","r","s","t","u","v","w","x","y","z">>

\* str.lower() and str.upper() on one character
LowerChar(ch) ==
    IF \E i \in 1..26 : UpperLetters[i] = ch
    THEN LowerLetters[CHOOSE i \in 1..26 : UpperLetters[i] = ch]
    ELSE ch
UpperChar(ch) ==
    IF \E i \in 1..26 : LowerLetters[i] = ch
    THEN UpperLetters[CHOOSE i \in 1..26 : LowerLetters[i] = ch]
    ELSE ch

\* str.lower() on a sequence of characters
Lower(text) == [i \in 1..Len(text) |-> LowerChar(text[i])]

\* str.title() on a word: first letter upper case, the others lower case
Title(word) ==
    [i \in 1..Len(word) |->
        IF i = 1 THEN UpperChar(word[i]) ELSE LowerChar(word[i])]

----------------------------------------------------------------------------
(* hash_data: sha256(json.dumps(data, sort_keys=True)).  The digest is      *)
(* modelled by what the sorted-key serialisation determines: the value with *)
(* every object taken as the set of its members, so two values have the     *)
(* same hash exactly when they are the same JSON value up to the order of   *)
(* the keys.  The values hashed come from response.json() and json.load.    *)

RECURSIVE hash_data(_)
hash_data(data) ==
    CASE Kind(data) = "obj" ->
           <<"obj", { <<KeyOf(data[2][i]), hash_data(ValueOf(data[2][i]))>> :
                        i \in 1..Len(data[2]) }>>
      [] Kind(data) = "list" ->
           JList([i \in 1..Len(data[2]) |-> hash_data(data[2][i])])
      [] OTHER -> data

----------------------------------------------------------------------------
(* The portal: what the remote API holds.  Each content is a record of the  *)
(* response envelopes the three endpoints give, without parameters and per  *)
(* course code / year value.                                                *)

Success(data) == JObj(<< <<"status", JStr("success")>>, <<"data", data>> >>)
SuccessNoData == JObj(<< <<"status", JStr("success")>> >>)
ErrorBody == JObj(<< <<"status", JStr("error")>> >>)

Course(code) == JObj(<< <<"code", JStr(code)>> >>)
YearInfo(text, value) ==
    JObj(<< <<"text", JStr(text)>>, <<"value", JStr(value)>> >>)
Nums(n) == JList([i \in 1..n |-> JNum(i)])
GradeRec(n, m) ==
    JObj(<< <<"detailed_grades", Nums(n)>>, <<"midterm_results", Nums(m)>> >>)
AttRec(n, w) ==
    JObj(<< <<"detailed_attendance", Nums(n)>>, <<"warning_courses", Nums(w)>> >>)
TransRec(gpa, n) ==
    JObj(<< <<"gpa", gpa>>, <<"transcript_data", Nums(n)>> >>)
Courses(list) == JObj(<< <<"available_courses", list>> >>)
Years(list) == JObj(<< <<"available_years", list>> >>)

\* 1: two courses (one only in the attendance summary), malformed entries,
\*    one year inside and one outside the allowed years, an empty result.
Portal1 ==
    [ grades     |-> Success(Courses(JList(<<Course("CS101"), JStr("2022"),
                                             JObj(<< <<"name", JStr("")>> >>)>>))),
      attendance |-> Success(Courses(JList(<<Course("CS101"), Course("MA102")>>))),
      transcript |-> Success(Years(JList(<<YearInfo("2023/2024", "y2023"),
                                           YearInfo("2019/2020", "y2019"),
                                           JStr("2022")>>))),
      course_grades |->
          JObj(<< <<"CS101", Success(GradeRec(2, 1))>>,
                  <<"MA102", Success(EmptyObj)>> >>),
      course_attendance |->
          JObj(<< <<"CS101", Success(AttRec(1, 0))>>,
                  <<"MA102", Success(AttRec(1, 1))>> >>),
      year_transcript |->
          JObj(<< <<"y2023", Success(TransRec(JStr("3.2"), 1))>> >>) ]

\* 2: later content: one course left, with new grades, attendance entries,
\*    a warning and a changed GPA.
Portal2 ==
    [ grades     |-> Success(Courses(JList(<<Course("CS101")>>))),
      attendance |-> Success(Courses(JList(<<Course("CS101")>>))),
      transcript |-> Success(Years(JList(<<YearInfo("2023/2024", "y2023")>>))),
      course_grades |->
          JObj(<< <<"CS101", Success(GradeRec(3, 2))>>,
                  <<"MA102", Success(GradeRec(1, 0))>> >>),
      course_attendance |->
          JObj(<< <<"CS101", Success(AttRec(2, 1))>>,
                  <<"MA102", Success(AttRec(1, 1))>> >>),
      year_transcript |->
          JObj(<< <<"y2023", Success(TransRec(JStr("3.5"), 2))>> >>) ]

\* 3: no course can be discovered.
Portal3 ==
    [ grades     |-> Success(Courses(EmptyList)),
      attendance |-> SuccessNoData,
      transcript |-> Success(Years(JList(<<YearInfo("2023/2024", "y2023")>>))),
      course_grades |-> EmptyObj,
      course_attendance |-> EmptyObj,
      year_transcript |-> EmptyObj ]

\* 4: a null payload; a course whose code is a number; a year whose label
\*    is a list that holds "2022" and a year whose label contains "2022",
\*    with a list as its record.
Portal4 ==
    [ grades     |-> Success(JNull),
      attendance |-> Success(Courses(JList(<<JObj(<< <<"code", JNum(5)>> >>)>>))),
      transcript |->
          Success(Years(JList(<<JObj(<< <<"text", JList(<<JStr("2022")>>)>>,
                                        <<"value", JStr("y7")>> >>),
                                YearInfo("2021/2022", "y2021")>>))),
      course_grades |->
          JObj(<< <<"key", JNum(5), Success(GradeRec(1, 0))>> >>),
      course_attendance |-> EmptyObj,
      year_transcript |->
          JObj(<< <<"y7", Success(TransRec(JStr("3.2"), 1))>>,
                  <<"y2021", Success(Nums(1))>> >>) ]

\* 5: a summary whose course list is null.
Portal5 ==
    [ grades     |-> Success(Courses(JNull)),
      attendance |-> Success(Courses(JList(<<Course("CS101")>>))),
      transcript |-> Success(Years(EmptyList)),
      course_grades |-> EmptyObj,
      course_attendance |-> EmptyObj,
      year_transcript |-> EmptyObj ]

\* 6: every request is answered with an error body (e.g. the credentials
\*    are rejected).
Portal6 ==
    [ grades     |-> ErrorBody,
      attendance |-> ErrorBody,
      transcript |-> ErrorBody,
      course_grades |-> EmptyObj,
      course_attendance |-> EmptyObj,
      year_transcript |-> EmptyObj ]

Portals == <<Portal1, Portal2, Portal3, Portal4, Portal5, Portal6>>

\* The envelope a table of the portal holds under the course code or year
\* value sent as JSON; an unknown course or year gets an error body.
Answer(table, v) ==
    IF \E i \in 1..Len(table[2]) : KeyOf(table[2][i]) = v
    THEN ValueOf(table[2][CHOOSE i \in 1..Len(table[2]) : KeyOf(table[2][i]) = v])
    ELSE ErrorBody

\* The envelope the portal holds for a request; params is None or one
\* <<name, value>> pair.
Envelope(p, endpoint, params) ==
    IF params = JNull
    THEN CASE endpoint = "grades"     -> Portals[p].grades
           [] endpoint = "attendance" -> Portals[p].attendance
           [] endpoint = "transcript" -> Portals[p].transcript
    ELSE CASE endpoint = "grades" ->
                Answer(Portals[p].course_grades, params[2])
           [] endpoint = "attendance" ->
                Answer(Portals[p].course_attendance, params[2])
           [] endpoint = "transcript" ->
                Answer(Portals[p].year_transcript, params[2])

\* What one requests.post can produce: an exception (transport error,
\* timeout, body that is not JSON), or a response <<status_code, body>>.
Responses(p, endpoint, params) ==
    { <<"exception">>,
      <<"response", 500, Envelope(p, endpoint, params)>>,
      <<"response", 200, ErrorBody>>,
      <<"response", 200, Envelope(p, endpoint, params)>> }

----------------------------------------------------------------------------
(* extract_courses_and_years.  Results are <<"ok", value>> or <<"raise">>.  *)

AllowedYears == <<"2022", "2023", "2024", "2025">>

\* Python: key in container, for a string key; <<"raise">> is TypeError.
PyIn(key, container) ==
    CASE Kind(container) = "obj"  -> <<"ok", HasKey(container, key)>>
      [] Kind(container) = "list" ->
           <<"ok", \E i \in 1..Len(container[2]) : container[2][i] = JStr(key)>>
      [] Kind(container) = "str"  -> <<"ok", Substring(key, container[2])>>
      [] OTHER -> <<"raise">>

\* The elements a for loop over v visits: iterating a dict gives its keys,
\* iterating a str its characters; None, a bool or a number raises.
Elements(v) ==
    CASE Kind(v) = "list" -> <<"ok", v[2]>>
      [] Kind(v) = "obj"  -> <<"ok", [i \in 1..Len(v[2]) |-> KeyOf(v[2][i])]>>
      [] Kind(v) = "str"  ->
           <<"ok", [i \in 1..Len(Chars(v[2])) |-> JStr(Chars(v[2])[i])]>>
      [] OTHER -> <<"raise">>

\* Lines 79-82 for one data_type: the codes it adds to the set, in the
\* order of the additions; a code that is a list or a dict cannot be added
\* (TypeError).
CoursesOf(data) ==
    IF ~Truthy(data) THEN <<"ok", <<>> >>
    ELSE LET has == PyIn("available_courses", data)
         IN IF has[1] = "raise" THEN <<"raise">>
            ELSE IF ~has[2] THEN <<"ok", <<>> >>
            ELSE IF ~IsObj(data) THEN <<"raise">>
            ELSE LET els == Elements(Get(data, "available_courses", JNull))
                 IN IF els[1] = "raise" THEN <<"raise">>
                    ELSE LET coded == SelectSeq(els[2],
                                         LAMBDA course : /\ IsObj(course)
                                                         /\ HasKey(course, "code"))
                             codes == [i \in 1..Len(coded) |->
                                         Get(coded[i], "code", JNull)]
                         IN IF \E i \in 1..Len(codes) : ~Hashable(codes[i])
                            THEN <<"raise">>
                            ELSE <<"ok", codes>>

\* set.add for each value in turn: a value equal to one already in the set
\* (True == 1) is not added.
RECURSIVE AddedTo(_, _)
AddedTo(members, values) ==
    IF values = <<>> THEN members
    ELSE AddedTo(IF \E i \in 1..Len(members) : SameKey(members[i], values[1])
                 THEN members ELSE Append(members, values[1]),
                 Tail(values))

\* Line 91 for one year_info: any(y in year_text for y in [...]).
YearAllowed(year_text) ==
    LET tests == [i \in 1..Len(AllowedYears) |-> PyIn(AllowedYears[i], year_text)]
    IN IF tests[1][1] = "raise" THEN <<"raise">>
       ELSE <<"ok", \E i \in 1..Len(tests) : tests[i][2]>>

\* Lines 85-92: the years list.
YearsOf(data) ==
    IF ~Truthy(data) THEN <<"ok", <<>> >>
    ELSE LET has == PyIn("available_years", data)
         IN IF has[1] = "raise" THEN <<"raise">>
            ELSE IF ~has[2] THEN <<"ok", <<>> >>
            ELSE IF ~IsObj(data) THEN <<"raise">>
            ELSE LET els == Elements(Get(data, "available_years", JNull))
                 IN IF els[1] = "raise" THEN <<"raise">>
                    ELSE LET dicts == SelectSeq(els[2], IsObj)
                             text(y) == Get(y, "text", JStr(""))
                         IN IF \E i \in 1..Len(dicts) :
                                   YearAllowed(text(dicts[i]))[1] = "raise"
                            THEN <<"raise">>
                            ELSE LET kept == SelectSeq(dicts,
                                               LAMBDA y : YearAllowed(text(y))[2])
                                 IN <<"ok", [i \in 1..Len(kept) |->
                                              [text  |-> text(kept[i]),
                                               value |-> Get(kept[i], "value", JStr(""))]]>>

\* The set of courses and the list of years, or <<"raise">>.
extract_courses_and_years(s) ==
    LET g == CoursesOf(Get(s, "grades", JNull))
        a == CoursesOf(Get(s, "attendance", JNull))
        y == YearsOf(Get(s, "transcript", JNull))
    IN IF g[1] = "raise" \/ a[1] = "raise" \/ y[1] = "raise"
       THEN <<"raise">>
       ELSE LET members == AddedTo(<<>>, g[2] \o a[2])
            IN <<"ok", {members[i] : i \in 1..Len(members)}, y[2]>>

\* list(courses): a Python set has no fixed iteration order.
Orderings(S) ==
    { seq \in [1..Cardinality(S) -> S] :
        \A i, j \in 1..Cardinality(S) : i # j => seq[i] # seq[j] }

----------------------------------------------------------------------------
(* detect_changes.  Change events are tagged tuples; the result is          *)
(* <<"ok", changes>> or <<"raise">> (AttributeError of .get on a value that *)
(* is no dict, TypeError of len on a value that has no length).             *)

InitialEvent == <<"initial">>
SummaryEvent(data_type) == <<"summary", data_type>>
GradeEntriesEvent(code, n) == <<"grade_entries", code, n>>
MidtermEvent(code) == <<"midterm", code>>
GradeChangesEvent(code) == <<"grade_changes", code>>
AttendanceEntriesEvent(code, n) == <<"attendance_entries", code, n>>
WarningEvent(code) == <<"warnings", code>>
GpaEvent(year, old, new) == <<"gpa", year, old, new>>
TranscriptCoursesEvent(year, n) == <<"transcript_courses", year, n>>
ErrorEvent(step) == <<"error", step>>

PyLen(v) == IF Kind(v) = "str" THEN Len(Chars(v[2])) ELSE Len(v[2])

Endpoints == <<"grades", "attendance", "transcript">>

\* A summary that could not be fetched is reported as updated.
SummaryChanges_AbsentIsUpdate(old_data, new_data) ==
    IF ~IsObj(old_data) \/ ~IsObj(Get(old_data, "summary", EmptyObj))
    THEN <<"raise">>
    ELSE LET old(dt) == Get(Get(old_data, "summary", EmptyObj), dt, EmptyObj)
             new(dt) == Get(Get(new_data, "summary", EmptyObj), dt, EmptyObj)
             differ == SelectSeq(Endpoints,
                          LAMBDA dt : \/ ~Truthy(new(dt))
                                      \/ hash_data(old(dt)) # hash_data(new(dt)))
         IN <<"ok", [i \in 1..Len(differ) |-> SummaryEvent(differ[i])]>>

\* A summary that could not be fetched (None) is not compared.
SummaryChanges_SkipsAbsent(old_data, new_data) ==
    IF ~IsObj(old_data) \/ ~IsObj(Get(old_data, "summary", EmptyObj))
    THEN <<"raise">>
    ELSE LET old(dt) == Get(Get(old_data, "summary", EmptyObj), dt, EmptyObj)
             new(dt) == Get(Get(new_data, "summary", EmptyObj), dt, EmptyObj)
             differ == SelectSeq(Endpoints,
                          LAMBDA dt : /\ new(dt) # JNull
                                      /\ hash_data(old(dt)) # hash_data(new(dt)))
         IN <<"ok", [i \in 1..Len(differ) |-> SummaryEvent(differ[i])]>>

\* Lines 184-189.
SummaryChanges(old_data, new_data) ==
    IF ~IsObj(old_data) \/ ~IsObj(Get(old_data, "summary", EmptyObj))
    THEN <<"raise">>
    ELSE LET old(dt) == Get(Get(old_data, "summary", EmptyObj), dt, EmptyObj)
             new(dt) == Get(Get(new_data, "summary", EmptyObj), dt, EmptyObj)
             differ == SelectSeq(Endpoints,
                          LAMBDA dt : hash_data(old(dt)) # hash_data(new(dt)))
         IN <<"ok", [i \in 1..Len(differ) |-> SummaryEvent(differ[i])]>>

\* The number of entries is reported instead of the number of new entries.
GradeChanges_TotalCount(old_grades, course_code, course_data) ==
    IF ~IsObj(old_grades) THEN <<"raise">>
    ELSE LET old_course_data == Item(old_grades, course_code, EmptyObj)
         IN IF hash_data(old_course_data) = hash_data(course_data)
            THEN <<"ok", <<>> >>
            ELSE IF ~IsObj(old_course_data) \/ ~IsObj(course_data)
            THEN <<"raise">>
            ELSE LET old_detailed == Get(old_course_data, "detailed_grades", EmptyList)
                     new_detailed == Get(course_data, "detailed_grades", EmptyList)
                     old_midterms == Get(old_course_data, "midterm_results", EmptyList)
                     new_midterms == Get(course_data, "midterm_results", EmptyList)
                 IN IF ~HasLen(old_detailed) \/ ~HasLen(new_detailed)
                       \/ ~HasLen(old_midterms) \/ ~HasLen(new_midterms)
                    THEN <<"raise">>
                    ELSE <<"ok",
                           (IF PyLen(new_detailed) > PyLen(old_detailed)
                            THEN <<GradeEntriesEvent(course_code,
                                       PyLen(new_detailed))>>
                            ELSE <<>>)
                           \o (IF PyLen(new_midterms) > PyLen(old_midterms)
                               THEN <<MidtermEvent(course_code)>> ELSE <<>>)
                           \o (IF hash_data(old_midterms) # hash_data(new_midterms)
                               THEN <<GradeChangesEvent(course_code)>> ELSE <<>>)>>

\* Grade changes are reported only when the number of midterm results
\* changed.
GradeChanges_ByLength(old_grades, course_code, course_data) ==
    IF ~IsObj(old_grades) THEN <<"raise">>
    ELSE LET old_course_data == Item(old_grades, course_code, EmptyObj)
         IN IF hash_data(old_course_data) = hash_data(course_data)
            THEN <<"ok", <<>> >>
            ELSE IF ~IsObj(old_course_data) \/ ~IsObj(course_data)
            THEN <<"raise">>
            ELSE LET old_detailed == Get(old_course_data, "detailed_grades", EmptyList)
                     new_detailed == Get(course_data, "detailed_grades", EmptyList)
                     old_midterms == Get(old_course_data, "midterm_results", EmptyList)
                     new_midterms == Get(course_data, "midterm_results", EmptyList)
                 IN IF ~HasLen(old_detailed) \/ ~HasLen(new_detailed)
                       \/ ~HasLen(old_midterms) \/ ~HasLen(new_midterms)
                    THEN <<"raise">>
                    ELSE <<"ok",
                           (IF PyLen(new_detailed) > PyLen(old_detailed)
                            THEN <<GradeEntriesEvent(course_code,
                                       PyLen(new_detailed) - PyLen(old_detailed))>>
                            ELSE <<>>)
                           \o (IF PyLen(new_midterms) > PyLen(old_midterms)
                               THEN <<MidtermEvent(course_code)>> ELSE <<>>)
                           \o (IF PyLen(old_midterms) # PyLen(new_midterms)
                               THEN <<GradeChangesEvent(course_code)>> ELSE <<>>)>>

\* Grade changes are reported whenever the record changed.
GradeChanges_ReportsEdits(old_grades, course_code, course_data) ==
    IF ~IsObj(old_grades) THEN <<"raise">>
    ELSE LET old_course_data == Item(old_grades, course_code, EmptyObj)
         IN IF hash_data(old_course_data) = hash_data(course_data)
            THEN <<"ok", <<>> >>
            ELSE IF ~IsObj(old_course_data) \/ ~IsObj(course_data)
            THEN <<"raise">>
            ELSE LET old_detailed == Get(old_course_data, "detailed_grades", EmptyList)
                     new_detailed == Get(course_data, "detailed_grades", EmptyList)
                     old_midterms == Get(old_course_data, "midterm_results", EmptyList)
                     new_midterms == Get(course_data, "midterm_results", EmptyList)
                 IN IF ~HasLen(old_detailed) \/ ~HasLen(new_detailed)
                       \/ ~HasLen(old_midterms) \/ ~HasLen(new_midterms)
                    THEN <<"raise">>
                    ELSE <<"ok",
                           (IF PyLen(new_detailed) > PyLen(old_detailed)
                            THEN <<GradeEntriesEvent(course_code,
                                       PyLen(new_detailed) - PyLen(old_detailed))>>
                            ELSE <<>>)
                           \o (IF PyLen(new_midterms) > PyLen(old_midterms)
                               THEN <<MidtermEvent(course_code)>> ELSE <<>>)
                           \o (IF hash_data(old_course_data) # hash_data(course_data)
                               THEN <<GradeChangesEvent(course_code)>> ELSE <<>>)>>

\* Lines 196-214 for one item of new_grades.
GradeChanges(old_grades, course_code, course_data) ==
    IF ~IsObj(old_grades) THEN <<"raise">>
    ELSE LET old_course_data == Item(old_grades, course_code, EmptyObj)
         IN IF hash_data(old_course_data) = hash_data(course_data)
            THEN <<"ok", <<>> >>
            ELSE IF ~IsObj(old_course_data) \/ ~IsObj(course_data)
            THEN <<"raise">>
            ELSE LET old_detailed == Get(old_course_data, "detailed_grades", EmptyList)
                     new_detailed == Get(course_data, "detailed_grades", EmptyList)
                     old_midterms == Get(old_course_data, "midterm_results", EmptyList)
                     new_midterms == Get(course_data, "midterm_results", EmptyList)
                 IN IF ~HasLen(old_detailed) \/ ~HasLen(new_detailed)
                       \/ ~HasLen(old_midterms) \/ ~HasLen(new_midterms)
                    THEN <<"raise">>
                    ELSE <<"ok",
                           (IF PyLen(new_detailed) > PyLen(old_detailed)
                            THEN <<GradeEntriesEvent(course_code,
                                       PyLen(new_detailed) - PyLen(old_detailed))>>
                            ELSE <<>>)
                           \o (IF PyLen(new_midterms) > PyLen(old_midterms)
                               THEN <<MidtermEvent(course_code)>> ELSE <<>>)
                           \o (IF hash_data(old_midterms) # hash_data(new_midterms)
                               THEN <<GradeChangesEvent(course_code)>> ELSE <<>>)>>

\* A course the baseline does not hold is not compared.
AttendanceChanges_SkipsNewKeys(old_attendance, course_code, course_data) ==
    IF ~IsObj(old_attendance) THEN <<"raise">>
    ELSE LET old_course_data == Item(old_attendance, course_code, EmptyObj)
         IN IF \/ ~HasItem(old_attendance, course_code)
               \/ hash_data(old_course_data) = hash_data(course_data)
            THEN <<"ok", <<>> >>
            ELSE IF ~IsObj(old_course_data) \/ ~IsObj(course_data)
            THEN <<"raise">>
            ELSE LET old_detailed == Get(old_course_data, "detailed_attendance", EmptyList)
                     new_detailed == Get(course_data, "detailed_attendance", EmptyList)
                     old_warnings == Get(old_course_data, "warning_courses", EmptyList)
                     new_warnings == Get(course_data, "warning_courses", EmptyList)
                 IN IF ~HasLen(old_detailed) \/ ~HasLen(new_detailed)
                       \/ ~HasLen(old_warnings) \/ ~HasLen(new_warnings)
                    THEN <<"raise">>
                    ELSE <<"ok",
                           (IF PyLen(new_detailed) > PyLen(old_detailed)
                            THEN <<AttendanceEntriesEvent(course_code,
                                       PyLen(new_detailed) - PyLen(old_detailed))>>
                            ELSE <<>>)
                           \o (IF PyLen(new_warnings) > PyLen(old_warnings)
                               THEN <<WarningEvent(course_code)>> ELSE <<>>)>>

\* Lines 221-235 for one item of new_attendance.
AttendanceChanges(old_attendance, course_code, course_data) ==
    IF ~IsObj(old_attendance) THEN <<"raise">>
    ELSE LET old_course_data == Item(old_attendance, course_code, EmptyObj)
         IN IF hash_data(old_course_data) = hash_data(course_data)
            THEN <<"ok", <<>> >>
            ELSE IF ~IsObj(old_course_data) \/ ~IsObj(course_data)
            THEN <<"raise">>
            ELSE LET old_detailed == Get(old_course_data, "detailed_attendance", EmptyList)
                     new_detailed == Get(course_data, "detailed_attendance", EmptyList)
                     old_warnings == Get(old_course_data, "warning_courses", EmptyList)
                     new_warnings == Get(course_data, "warning_courses", EmptyList)
                 IN IF ~HasLen(old_detailed) \/ ~HasLen(new_detailed)
                       \/ ~HasLen(old_warnings) \/ ~HasLen(new_warnings)
                    THEN <<"raise">>
                    ELSE <<"ok",
                           (IF PyLen(new_detailed) > PyLen(old_detailed)
                            THEN <<AttendanceEntriesEvent(course_code,
                                       PyLen(new_detailed) - PyLen(old_detailed))>>
                            ELSE <<>>)
                           \o (IF PyLen(new_warnings) > PyLen(old_warnings)
                               THEN <<WarningEvent(course_code)>> ELSE <<>>)>>

\* Python: a == b on JSON-derived values (True == 1, dicts compare
\* regardless of key order, lists element by element).
RECURSIVE PyEqual(_, _)
PyEqual(a, b) ==
    IF IsNumber(a) /\ IsNumber(b) THEN NumberOf(a) = NumberOf(b)
    ELSE IF Kind(a) # Kind(b) THEN FALSE
    ELSE CASE Kind(a) = "list" ->
                /\ Len(a[2]) = Len(b[2])
                /\ \A i \in 1..Len(a[2]) : PyEqual(a[2][i], b[2][i])
           [] Kind(a) = "obj" ->
                /\ Len(a[2]) = Len(b[2])
                /\ \A key \in KeySet(a) :
                      /\ HasItem(b, key)
                      /\ PyEqual(Item(a, key, JNull), Item(b, key, JNull))
           [] OTHER -> a = b
PyNotEqual(a, b) == ~PyEqual(a, b)

\* The GPA is reported whenever the record of the year changed.
TranscriptChanges_GpaAlways(old_transcripts, year, year_data) ==
    IF ~IsObj(old_transcripts) THEN <<"raise">>
    ELSE LET old_year_data == Item(old_transcripts, year, EmptyObj)
         IN IF hash_data(old_year_data) = hash_data(year_data)
            THEN <<"ok", <<>> >>
            ELSE IF ~IsObj(old_year_data) \/ ~IsObj(year_data)
            THEN <<"raise">>
            ELSE LET old_gpa == Get(old_year_data, "gpa", JNull)
                     new_gpa == Get(year_data, "gpa", JNull)
                     old_list == Get(old_year_data, "transcript_data", EmptyList)
                     new_list == Get(year_data, "transcript_data", EmptyList)
                 IN IF ~HasLen(old_list) \/ ~HasLen(new_list)
                    THEN <<"raise">>
                    ELSE <<"ok",
                           (IF TRUE
                            THEN <<GpaEvent(year, old_gpa, new_gpa)>> ELSE <<>>)
                           \o (IF PyLen(new_list) > PyLen(old_list)
                               THEN <<TranscriptCoursesEvent(year,
                                          PyLen(new_list) - PyLen(old_list))>>
                               ELSE <<>>)>>

\* Lines 242-257 for one item of new_transcripts.
TranscriptChanges(old_transcripts, year, year_data) ==
    IF ~IsObj(old_transcripts) THEN <<"raise">>
    ELSE LET old_year_data == Item(old_transcripts, year, EmptyObj)
         IN IF hash_data(old_year_data) = hash_data(year_data)
            THEN <<"ok", <<>> >>
            ELSE IF ~IsObj(old_year_data) \/ ~IsObj(year_data)
            THEN <<"raise">>
            ELSE LET old_gpa == Get(old_year_data, "gpa", JNull)
                     new_gpa == Get(year_data, "gpa", JNull)
                     old_list == Get(old_year_data, "transcript_data", EmptyList)
                     new_list == Get(year_data, "transcript_data", EmptyList)
                 IN IF ~HasLen(old_list) \/ ~HasLen(new_list)
                    THEN <<"raise">>
                    ELSE <<"ok",
                           (IF PyNotEqual(old_gpa, new_gpa)
                            THEN <<GpaEvent(year, old_gpa, new_gpa)>> ELSE <<>>)
                           \o (IF PyLen(new_list) > PyLen(old_list)
                               THEN <<TranscriptCoursesEvent(year,
                                          PyLen(new_list) - PyLen(old_list))>>
                               ELSE <<>>)>>

\* One of the three loops over the items of a mapping of new_data: the
\* events of the items in iteration order, or <<"raise">>.
RECURSIVE LoopChanges(_, _, _, _)
LoopChanges(mapping, old_map, new_map, i) ==
    IF i > Len(new_map[2]) THEN <<"ok", <<>> >>
    ELSE LET key   == KeyOf(new_map[2][i])
             value == ValueOf(new_map[2][i])
             first == CASE mapping = "detailed_grades" ->
                             GradeChanges(old_map, key, value)
                        [] mapping = "detailed_attendance" ->
                             AttendanceChanges(old_map, key, value)
                        [] mapping = "detailed_transcripts" ->
                             TranscriptChanges(old_map, key, value)
             rest  == LoopChanges(mapping, old_map, new_map, i + 1)
         IN IF first[1] = "raise" \/ rest[1] = "raise"
            THEN <<"raise">>
            ELSE <<"ok", first[2] \o rest[2]>>

\* The attendance loop runs before the grades loop.
CompareChanges_AttendanceFirst(old_data, new_data) ==
         LET s == SummaryChanges(old_data, new_data)
         IN IF s[1] = "raise" THEN <<"raise">>
            ELSE LET loop(mapping) ==
                         LoopChanges(mapping,
                                     Get(old_data, mapping, EmptyObj),
                                     Get(new_data, mapping, EmptyObj), 1)
                     g == loop("detailed_grades")
                     a == loop("detailed_attendance")
                     t == loop("detailed_transcripts")
                 IN IF g[1] = "raise" \/ a[1] = "raise" \/ t[1] = "raise"
                    THEN <<"raise">>
                    ELSE <<"ok", s[2] \o a[2] \o g[2] \o t[2]>>

\* Lines 183-259: the comparison against a baseline that is not None.
CompareChanges(old_data, new_data) ==
         LET s == SummaryChanges(old_data, new_data)
         IN IF s[1] = "raise" THEN <<"raise">>
            ELSE LET loop(mapping) ==
                         LoopChanges(mapping,
                                     Get(old_data, mapping, EmptyObj),
                                     Get(new_data, mapping, EmptyObj), 1)
                     g == loop("detailed_grades")
                     a == loop("detailed_attendance")
                     t == loop("detailed_transcripts")
                 IN IF g[1] = "raise" \/ a[1] = "raise" \/ t[1] = "raise"
                    THEN <<"raise">>
                    ELSE <<"ok", s[2] \o g[2] \o a[2] \o t[2]>>

\* A missing baseline taken for an empty one.
detect_changes_EmptyBaseline(old_data, new_data) ==
    CompareChanges(IF old_data = JNull THEN EmptyObj ELSE old_data, new_data)

\* Lines 175-259.
detect_changes(old_data, new_data) ==
    IF old_data = JNull THEN <<"ok", <<InitialEvent>> >>
    ELSE CompareChanges(old_data, new_data)

----------------------------------------------------------------------------
(* The state file previous_data.json: <<"missing">>, <<"garbage">> (a file  *)
(* that cannot be read or whose text json.load rejects, an empty or cut-off *)
(* file included) or <<"json", v>>.                                         *)

FileMissing == <<"missing">>
FileGarbage == <<"garbage">>
FileJson(text) == <<"json", text>>

\* The decimal digits of a natural number, and the number they denote.
DigitChars == <<"0", "1", "2", "3", "4", "5", "6", "7", "8", "9">>
RECURSIVE IntText(_)
IntText(n) ==
    IF n < 10 THEN <<DigitChars[n + 1]>>
    ELSE Append(IntText(n \div 10), DigitChars[(n % 10) + 1])
DigitValue(ch) == (CHOOSE i \in 1..10 : DigitChars[i] = ch) - 1
RECURSIVE TextInt(_)
TextInt(digits) ==
    IF Len(digits) = 1 THEN DigitValue(digits[1])
    ELSE 10 * TextInt(SubSeq(digits, 1, Len(digits) - 1))
         + DigitValue(digits[Len(digits)])

\* The name json.dump writes for a dict key: a str as it is, None as
\* null, a bool as true or false, a number by its digits.
JsonKey(k) ==
    CASE Kind(k) = "str"  -> k[2]
      [] Kind(k) = "null" -> "null"
      [] Kind(k) = "bool" -> (IF k[2] THEN "true" ELSE "false")
      [] Kind(k) = "num"  -> ToString(k[2])

\* json.dump(data, f, indent=2, ensure_ascii=False) (line 166): the JSON
\* document of a value, as the tree of its tokens; the members of an object
\* are written in the insertion order of the dict.
RECURSIVE json_dump(_)
json_dump(v) ==
    CASE Kind(v) = "null" -> <<"literal", "null">>
      [] Kind(v) = "bool" -> <<"literal", IF v[2] THEN "true" ELSE "false">>
      [] Kind(v) = "num"  -> <<"number", IntText(v[2])>>
      [] Kind(v) = "str"  -> <<"string", v[2]>>
      [] Kind(v) = "list" ->
           <<"array", [i \in 1..Len(v[2]) |-> json_dump(v[2][i])]>>
      [] Kind(v) = "obj"  ->
           <<"object", [i \in 1..Len(v[2]) |->
                          <<JsonKey(KeyOf(v[2][i])),
                            json_dump(ValueOf(v[2][i]))>>]>>

\* json.load(f) (line 157): the value a JSON document denotes.  A name that
\* occurs twice in an object keeps its first position and its last value.
\* The document is bound by a quantifier over {t}, so that it is evaluated
\* once.
RECURSIVE json_load(_)
json_load(t) ==
    LET Value(doc) ==
          CASE doc[1] = "literal" ->
                 (IF doc[2] = "null" THEN JNull ELSE JBool(doc[2] = "true"))
            [] doc[1] = "number" -> JNum(TextInt(doc[2]))
            [] doc[1] = "string" -> JStr(doc[2])
            [] doc[1] = "array"  ->
                 JList([i \in 1..Len(doc[2]) |-> json_load(doc[2][i])])
            [] doc[1] = "object" ->
                 LET firsts == SelectSeq([i \in 1..Len(doc[2]) |-> i],
                                   LAMBDA i : \A j \in 1..(i - 1) :
                                                 doc[2][j][1] # doc[2][i][1])
                     last(i) == CHOOSE j \in i..Len(doc[2]) :
                                    /\ doc[2][j][1] = doc[2][i][1]
                                    /\ \A l \in (j + 1)..Len(doc[2]) :
                                          doc[2][l][1] # doc[2][i][1]
                 IN JObj([n \in 1..Len(firsts) |->
                            <<doc[2][firsts[n]][1],
                              json_load(doc[2][last(firsts[n])][2])>>])
    IN CHOOSE value \in {Value(doc) : doc \in {t}} : TRUE

\* A snapshot an earlier run saved while the portal held Portal1.
SavedSnapshot ==
    JObj(<< <<"detailed_grades", JObj(<< <<"CS101", GradeRec(2, 1)>> >>)>>,
            <<"detailed_attendance",
                JObj(<< <<"CS101", AttRec(1, 0)>>, <<"MA102", AttRec(1, 1)>> >>)>>,
            <<"detailed_transcripts",
                JObj(<< <<"2023/2024", TransRec(JStr("3.2"), 1)>> >>)>>,
            <<"summary",
                JObj(<< <<"grades", Get(Portal1.grades, "data", JNull)>>,
                        <<"attendance", Get(Portal1.attendance, "data", JNull)>>,
                        <<"transcript", Get(Portal1.transcript, "data", JNull)>> >>)>> >>)

InitialFiles ==
    { FileMissing, FileGarbage, FileJson(json_dump(EmptyList)),
      FileJson(json_dump(SavedSnapshot)) }

\* The snapshot starts from the baseline on disk instead of empty mappings.
NewDetailedData_FromBaseline ==
    IF /\ file[1] = "json"
       /\ IsObj(json_load(file[2]))
       /\ \A key \in {"detailed_grades", "detailed_attendance",
                       "detailed_transcripts", "summary"} :
              /\ HasKey(json_load(file[2]), key)
              /\ IsObj(Get(json_load(file[2]), key, JNull))
    THEN json_load(file[2])
    ELSE JObj(<< <<"detailed_grades", EmptyObj>>,
                 <<"detailed_attendance", EmptyObj>>,
                 <<"detailed_transcripts", EmptyObj>>,
                 <<"summary", EmptyObj>> >>)

\* Lines 101-106.
NewDetailedData ==
    JObj(<< <<"detailed_grades", EmptyObj>>,
            <<"detailed_attendance", EmptyObj>>,
            <<"detailed_transcripts", EmptyObj>>,
            <<"summary", EmptyObj>> >>)

----------------------------------------------------------------------------
(* The text of a change event (the f-strings of detect_changes), as a       *)
(* sequence of characters; an emoji or arrow is one character, named by its *)
(* code point.                                                              *)

\* Python: str(v) inside an f-string, for None, a string, an int, a bool
\* (the keys of the mappings and the GPA values).
Render(v) ==
    CASE Kind(v) = "null" -> Chars("None")
      [] Kind(v) = "str"  -> Chars(v[2])
      [] Kind(v) = "num"  -> IntText(v[2])
      [] Kind(v) = "bool" -> Chars(IF v[2] THEN "True" ELSE "False")

\* Lines 180, 189, 204, 211, 214, 228, 235, 250, 257.
Text(e) ==
    CASE e[1] = "initial" ->
           <<"U+1F195">> \o Chars(" Initial data fetch - monitoring started!")
      [] e[1] = "summary" ->
           <<"U+1F4CA">> \o Chars(" ") \o Title(Chars(e[2]))
              \o Chars(" summary updated")
      [] e[1] = "grade_entries" ->
           <<"U+1F4DD">> \o Chars(" ") \o IntText(e[3])
              \o Chars(" new grade entries for ") \o Render(e[2])
      [] e[1] = "midterm" ->
           <<"U+1F3AF">> \o Chars(" New midterm results for ") \o Render(e[2])
      [] e[1] = "grade_changes" ->
           <<"U+1F4C8">> \o Chars(" Grade changes detected for ") \o Render(e[2])
      [] e[1] = "attendance_entries" ->
           <<"U+1F4C5">> \o Chars(" ") \o IntText(e[3])
              \o Chars(" new attendance entries for ") \o Render(e[2])
      [] e[1] = "warnings" ->
           <<"U+26A0", "U+FE0F">> \o Chars(" New attendance warnings for ")
              \o Render(e[2])
      [] e[1] = "gpa" ->
           <<"U+1F393">> \o Chars(" GPA updated for ") \o Render(e[2])
              \o Chars(": ") \o Render(e[3]) \o <<" ", "U+2192", " ">>
              \o Render(e[4])
      [] e[1] = "transcript_courses" ->
           <<"U+1F4DA">> \o Chars(" ") \o IntText(e[3])
              \o Chars(" new courses in ") \o Render(e[2])
              \o Chars(" transcript")

\* "course" counts as a grade keyword too.
GradeWords_WithCourse == <<"grade", "midterm", "course">>

\* send_email, lines 273-276: the grouping of the changes by keyword.
GradeWords == <<"grade", "midterm">>
AttendanceWords == <<"attendance", "warning">>
TranscriptWords == <<"transcript", "gpa", "course">>

\* any(word in c.lower() for word in words)
AnyWordIn(words, c) ==
    LET lowered == Lower(Text(c))
    IN \E i \in 1..Len(words) : Contains(Chars(words[i]), lowered)

grade_changes(list) == SelectSeq(list, LAMBDA c : AnyWordIn(GradeWords, c))
attendance_changes(list) ==
    SelectSeq(list, LAMBDA c : AnyWordIn(AttendanceWords, c))
transcript_changes(list) ==
    SelectSeq(list, LAMBDA c : AnyWordIn(TranscriptWords, c))
other_changes(list) ==
    LET grouped == grade_changes(list) \o attendance_changes(list)
                      \o transcript_changes(list)
        texts   == {Text(grouped[i]) : i \in 1..Len(grouped)}
    IN SelectSeq(list, LAMBDA c : Text(c) \notin texts)

----------------------------------------------------------------------------
(* The run *)

CallPhases == {"summary", "d_summary", "d_grades", "d_attendance", "d_transcripts"}

\* The request the current make_api_request call sends: <<endpoint, params>>.
CurrentRequest ==
    CASE pc \in {"summary", "d_summary"} -> <<Endpoints[idx], JNull>>
      [] pc = "d_grades" -> <<"grades", <<"course_code", courses[idx]>> >>
      [] pc = "d_attendance" ->
           <<"attendance", <<"course_code", courses[idx]>> >>
      [] pc = "d_transcripts" ->
           <<"transcript", <<"year_value", years[idx].value>> >>

\* The portal holds no successful answer for the current request.
NoSuccess ==
    LET e == Envelope(portal, CurrentRequest[1], CurrentRequest[2])
    IN ~(IsObj(e) /\ Get(e, "status", JNull) = JStr("success"))

\* Lines 43-46: the attempt returns the data of this response.
IsSuccess(resp) ==
    /\ resp[1] = "response"
    /\ resp[2] = 200
    /\ IsObj(resp[3])
    /\ Get(resp[3], "status", JNull) = JStr("success")

Init ==
    /\ pc = "idle"
    /\ run = 0
    /\ portal = 1
    /\ file \in InitialFiles
    /\ fileAtStart = file
    /\ summary = EmptyObj
    /\ courses = <<>>
    /\ years = <<>>
    /\ detailed_data = JNull
    /\ idx = 1
    /\ attempt = 0
    /\ slept = 0
    /\ lastCall = <<0, FALSE>>
    /\ callLog = <<>>
    /\ previous_data = JNull
    /\ changes = <<>>
    /\ emails = <<>>
    /\ fileReads = 0
    /\ fileWrites = 0
    /\ outcome = "none"
    /\ saveResult = "none"
    /\ raisedAt = "none"
    /\ failedCalls = 0
    /\ prevLog = <<>>

\* run_monitoring is entered (line 448-454); the portal holds some content.
StartRun ==
    /\ pc \in {"idle", "done"}
    /\ run < MaxRuns
    /\ \E p \in 1..Len(Portals) : portal' = p
    /\ run' = run + 1
    /\ pc' = "summary"
    /\ fileAtStart' = file
    /\ summary' = EmptyObj
    /\ courses' = <<>>
    /\ years' = <<>>
    /\ detailed_data' = JNull
    /\ idx' = 1
    /\ attempt' = 0
    /\ slept' = 0
    /\ lastCall' = <<0, FALSE>>
    /\ callLog' = <<>>
    /\ previous_data' = JNull
    /\ changes' = <<>>
    /\ emails' = <<>>
    /\ fileReads' = 0
    /\ fileWrites' = 0
    /\ outcome' = "running"
    /\ saveResult' = "none"
    /\ raisedAt' = "none"
    /\ UNCHANGED <<file, failedCalls, prevLog>>

\* Lines 117, 129, 143: "if course_grades:" - only a non-empty result is
\* stored.
Stored(data) == Truthy(data)

\* Line 144 for the current year: a non-empty result cannot be stored under
\* a year text that is not hashable.
StoreRaises(data) ==
    pc = "d_transcripts" /\ Stored(data) /\ ~Hashable(years[idx].text)

\* What the caller of make_api_request does with the returned value, up to
\* its next call: lines 66-70 and 109-110 (summary), 117-120, 129-132 and
\* 143-146 (detailed).  delay is the sleep that follows the call.
Returned(data, n, ok) ==
    /\ lastCall' = <<n, ok>>
    /\ failedCalls' = IF ok \/ NoSuccess THEN failedCalls ELSE failedCalls + 1
    /\ callLog' = Append(callLog, [endpoint  |-> CurrentRequest[1],
                                   params    |-> CurrentRequest[2],
                                   data      |-> data,
                                   exhausted |-> ~ok])
    /\ attempt' = 0
    /\ CASE pc = "summary" ->
              /\ summary' = Put(summary, Endpoints[idx], data)
              /\ slept' = SummaryDelay
              /\ idx' = IF idx < 3 THEN idx + 1 ELSE 1
              /\ pc' = IF idx < 3 THEN "summary" ELSE "extract"
              /\ UNCHANGED detailed_data
         [] pc = "d_summary" ->
              /\ slept' = SummaryDelay
              /\ idx' = IF idx < 3 THEN idx + 1 ELSE 1
              /\ pc' = IF idx < 3 THEN "d_summary" ELSE "d_grades"
              /\ summary' = IF idx < 3 THEN Put(summary, Endpoints[idx], data)
                            ELSE EmptyObj
              /\ detailed_data' =
                    IF idx < 3 THEN detailed_data
                    ELSE Put(detailed_data, "summary",
                             Put(summary, Endpoints[idx], data))
         [] pc = "d_grades" ->
              /\ slept' = DetailDelay
              /\ detailed_data' =
                    IF Stored(data)
                    THEN Put(detailed_data, "detailed_grades",
                             SetItem(Get(detailed_data, "detailed_grades", EmptyObj),
                                     courses[idx], data))
                    ELSE detailed_data
              /\ idx' = IF idx < Len(courses) THEN idx + 1 ELSE 1
              /\ pc' = IF idx < Len(courses) THEN "d_grades" ELSE "d_attendance"
              /\ UNCHANGED summary
         [] pc = "d_attendance" ->
              /\ slept' = DetailDelay
              /\ detailed_data' =
                    IF Stored(data)
                    THEN Put(detailed_data, "detailed_attendance",
                             SetItem(Get(detailed_data, "detailed_attendance", EmptyObj),
                                     courses[idx], data))
                    ELSE detailed_data
              /\ idx' = IF idx < Len(courses) THEN idx + 1 ELSE 1
              /\ pc' = IF idx < Len(courses) THEN "d_attendance"
                       ELSE IF Len(years) > 0 THEN "d_transcripts" ELSE "load"
              /\ UNCHANGED summary
         [] pc = "d_transcripts" ->
              \* line 144 raises TypeError for a year text that is a list
              \* or a dict; lines 147-148 catch it past the sleep of line 146
              /\ slept' = IF StoreRaises(data) THEN 0 ELSE DetailDelay
              /\ detailed_data' =
                    IF Stored(data) /\ ~StoreRaises(data)
                    THEN Put(detailed_data, "detailed_transcripts",
                             SetItem(Get(detailed_data, "detailed_transcripts", EmptyObj),
                                     years[idx].text, data))
                    ELSE detailed_data
              /\ idx' = IF idx < Len(years) THEN idx + 1 ELSE 1
              /\ pc' = IF idx < Len(years) THEN "d_transcripts" ELSE "load"
              /\ UNCHANGED summary
    /\ UNCHANGED <<prevLog, run, portal, file, fileAtStart, courses, years,
                   previous_data, changes, emails, fileReads, fileWrites,
                   outcome, saveResult, raisedAt>>

\* One iteration of the loop of make_api_request (lines 34-54) that gets a
\* successful response: the call returns its data.
AttemptSucceeds ==
    /\ pc \in CallPhases
    /\ \E resp \in Responses(portal, CurrentRequest[1], CurrentRequest[2]) :
          /\ IsSuccess(resp)
          /\ Returned(Get(resp[3], "data", EmptyObj), attempt + 1, TRUE)

\* A failed first or second attempt: sleep 2 and try again.
AttemptFailsRetry ==
    /\ pc \in CallPhases
    /\ attempt < MaxAttempts - 1
    /\ failedCalls < MaxFailedCalls \/ NoSuccess
    /\ \E resp \in Responses(portal, CurrentRequest[1], CurrentRequest[2]) :
          ~IsSuccess(resp)
    /\ attempt' = attempt + 1
    /\ slept' = RetryDelay
    /\ lastCall' = <<0, FALSE>>
    /\ UNCHANGED <<prevLog, failedCalls, pc, run, portal, file, fileAtStart, summary, courses, years,
                   detailed_data, idx, callLog, previous_data,
                   changes, emails, fileReads, fileWrites, outcome,
                   saveResult, raisedAt>>

\* A failed third attempt: no sleep, the call returns None (line 56).
AttemptFailsLast ==
    /\ pc \in CallPhases
    /\ attempt >= MaxAttempts - 1
    /\ failedCalls < MaxFailedCalls \/ NoSuccess
    /\ \E resp \in Responses(portal, CurrentRequest[1], CurrentRequest[2]) :
          ~IsSuccess(resp)
    /\ Returned(JNull, attempt + 1, FALSE)

\* Lines 455-459 when extract_courses_and_years raises (TypeError).
ExtractRaises ==
    /\ pc = "extract"
    /\ extract_courses_and_years(summary)[1] = "raise"
    /\ pc' = "handler"
    /\ raisedAt' = "extract"
    /\ lastCall' = <<0, FALSE>>
    /\ UNCHANGED <<prevLog, failedCalls, run, portal, file, fileAtStart, summary, courses, years,
                   detailed_data, idx, attempt, slept, callLog,
                   previous_data, changes, emails, fileReads, fileWrites,
                   outcome, saveResult>>

\* The "if not courses: return" is missing: the run goes on.
AbortNoCourses_GoesOn ==
    /\ pc = "extract"
    /\ extract_courses_and_years(summary)[1] = "ok"
    /\ extract_courses_and_years(summary)[2] = {}
    /\ pc' = "load"
    /\ years' = extract_courses_and_years(summary)[3]
    /\ lastCall' = <<0, FALSE>>
    /\ UNCHANGED <<prevLog, failedCalls, run, portal, file, fileAtStart, summary, courses,
                   detailed_data, idx, attempt, slept, callLog,
                   previous_data, changes, emails, fileReads, fileWrites,
                   saveResult, raisedAt, outcome>>

\* Lines 455-459: no course was discovered, the run returns.
AbortNoCourses ==
    /\ pc = "extract"
    /\ extract_courses_and_years(summary)[1] = "ok"
    /\ extract_courses_and_years(summary)[2] = {}
    /\ pc' = "done"
    /\ outcome' = "aborted"
    /\ years' = extract_courses_and_years(summary)[3]
    /\ lastCall' = <<0, FALSE>>
    /\ UNCHANGED <<prevLog, failedCalls, run, portal, file, fileAtStart, summary, courses,
                   detailed_data, idx, attempt, slept, callLog,
                   previous_data, changes, emails, fileReads, fileWrites,
                   saveResult, raisedAt>>

\* fetch_detailed_data reuses the summary of the discovery instead of
\* calling fetch_summary_data again.
BeginDetailed_NoRefetch ==
    /\ pc = "extract"
    /\ extract_courses_and_years(summary)[1] = "ok"
    /\ extract_courses_and_years(summary)[2] # {}
    /\ \E order \in Orderings(extract_courses_and_years(summary)[2]) :
          courses' = order
    /\ years' = extract_courses_and_years(summary)[3]
    /\ detailed_data' = Put(NewDetailedData, "summary", summary)
    /\ summary' = EmptyObj
    /\ idx' = 1
    /\ pc' = "d_grades"
    /\ lastCall' = <<0, FALSE>>
    /\ UNCHANGED <<prevLog, failedCalls, run, portal, file, fileAtStart, attempt, slept, callLog, previous_data, changes, emails, fileReads,
                   fileWrites, outcome, saveResult, raisedAt>>

\* Lines 455-462 and 99-109: courses were discovered, fetch_detailed_data is
\* entered and calls fetch_summary_data again.
BeginDetailed ==
    /\ pc = "extract"
    /\ extract_courses_and_years(summary)[1] = "ok"
    /\ extract_courses_and_years(summary)[2] # {}
    /\ \E order \in Orderings(extract_courses_and_years(summary)[2]) :
          courses' = order
    /\ years' = extract_courses_and_years(summary)[3]
    /\ detailed_data' = NewDetailedData
    /\ summary' = EmptyObj
    /\ idx' = 1
    /\ pc' = "d_summary"
    /\ lastCall' = <<0, FALSE>>
    /\ UNCHANGED <<prevLog, failedCalls, run, portal, file, fileAtStart, attempt, slept, callLog, previous_data, changes, emails, fileReads,
                   fileWrites, outcome, saveResult, raisedAt>>

\* load_previous_data (lines 152-160): None when the file does not exist or
\* reading it raises.
load_previous_data(f) ==
    IF f = FileMissing THEN JNull
    ELSE IF f = FileGarbage THEN JNull
    ELSE json_load(f[2])

LoadPrevious ==
    /\ pc = "load"
    /\ previous_data' = load_previous_data(file)
    /\ fileReads' = IF file = FileMissing THEN fileReads ELSE fileReads + 1
    /\ pc' = "detect"
    /\ lastCall' = <<0, FALSE>>
    /\ UNCHANGED <<prevLog, failedCalls, run, portal, file, fileAtStart, summary, courses, years,
                   detailed_data, idx, attempt, slept, callLog,
                   changes, emails, fileWrites, outcome, saveResult, raisedAt>>

\* Line 468 when detect_changes raises.
DetectRaises ==
    /\ pc = "detect"
    /\ detect_changes(previous_data, detailed_data)[1] = "raise"
    /\ pc' = "handler"
    /\ raisedAt' = "detect"
    /\ lastCall' = <<0, FALSE>>
    /\ UNCHANGED <<prevLog, failedCalls, run, portal, file, fileAtStart, summary, courses, years,
                   detailed_data, idx, attempt, slept, callLog,
                   previous_data, changes, emails, fileReads, fileWrites,
                   outcome, saveResult>>

\* The "if changes:" of line 471 is missing: send_email is always called.
Detect_AlwaysNotifies ==
    /\ pc = "detect"
    /\ detect_changes(previous_data, detailed_data)[1] = "ok"
    /\ changes' = detect_changes(previous_data, detailed_data)[2]
    /\ pc' = "notify"
    /\ lastCall' = <<0, FALSE>>
    /\ UNCHANGED <<prevLog, failedCalls, run, portal, file, fileAtStart, summary, courses, years,
                   detailed_data, idx, attempt, slept, callLog,
                   previous_data, emails, fileReads, fileWrites, outcome,
                   saveResult, raisedAt>>

\* Lines 468-475.
Detect ==
    /\ pc = "detect"
    /\ detect_changes(previous_data, detailed_data)[1] = "ok"
    /\ changes' = detect_changes(previous_data, detailed_data)[2]
    /\ pc' = IF changes' # <<>> THEN "notify" ELSE "save"
    /\ lastCall' = <<0, FALSE>>
    /\ UNCHANGED <<prevLog, failedCalls, run, portal, file, fileAtStart, summary, courses, years,
                   detailed_data, idx, attempt, slept, callLog,
                   previous_data, emails, fileReads, fileWrites, outcome,
                   saveResult, raisedAt>>

\* send_email (lines 261-446): one attempt to deliver the changes; a
\* failure of the mail server is caught and logged inside send_email.
send_email(sent, list, delivered) ==
    IF list = <<>> THEN sent ELSE Append(sent, <<list, delivered>>)

\* Line 473.  smtplib.SMTP(...) is created without a timeout (line 436) and
\* no default timeout is set, so send_email returns only if the mail server
\* answers or the connection breaks: with a server that accepts the
\* connection and stays silent the call never returns (pc = "blocked").
Notify ==
    /\ pc = "notify"
    /\ \/ /\ \E delivered \in BOOLEAN :
                emails' = send_email(emails, changes, delivered)
          /\ pc' = "save"
       \/ /\ pc' = "blocked"
          /\ UNCHANGED emails
    /\ lastCall' = <<0, FALSE>>
    /\ UNCHANGED <<prevLog, failedCalls, run, portal, file, fileAtStart, summary, courses, years,
                   detailed_data, idx, attempt, slept, callLog,
                   previous_data, changes, fileReads, fileWrites, outcome,
                   saveResult, raisedAt>>

\* save_current_data (lines 162-169) and line 480.  open(..., 'w') may fail
\* and leave the file alone; once it succeeded the file is truncated, and
\* json.dump either writes the whole document or fails part-way.
save_current_data(f, data, result) ==
    CASE result = "saved"        -> FileJson(json_dump(data))
      [] result = "open_failed"  -> f
      [] result = "write_failed" -> FileGarbage

\* save_current_data without its try/except: a failure reaches the
\* top-level handler.
Save_Unguarded ==
    /\ pc = "save"
    /\ \E result \in {"saved", "open_failed", "write_failed"} :
          /\ file' = save_current_data(file, detailed_data, result)
          /\ saveResult' = result
          /\ fileWrites' = IF result = "open_failed" THEN fileWrites
                           ELSE fileWrites + 1
          /\ pc' = IF result = "saved" THEN "done" ELSE "handler"
          /\ outcome' = IF result = "saved" THEN "completed" ELSE outcome
          /\ raisedAt' = IF result = "saved" THEN raisedAt ELSE "save"
    /\ lastCall' = <<0, FALSE>>
    /\ UNCHANGED <<prevLog, failedCalls, run, portal, fileAtStart, summary, courses, years,
                   detailed_data, idx, attempt, slept, callLog,
                   previous_data, changes, emails, fileReads>>

\* The snapshot is saved only when the notification was delivered (or there
\* was nothing to notify).
Save_OnlyIfDelivered ==
    /\ pc = "save"
    /\ \E result \in {"saved", "open_failed", "write_failed"} :
          IF emails # <<>> /\ ~emails[1][2]
          THEN UNCHANGED <<file, saveResult, fileWrites>>
          ELSE /\ file' = save_current_data(file, detailed_data, result)
               /\ saveResult' = result
               /\ fileWrites' = IF result = "open_failed" THEN fileWrites
                                ELSE fileWrites + 1
    /\ pc' = "done"
    /\ outcome' = "completed"
    /\ lastCall' = <<0, FALSE>>
    /\ UNCHANGED <<prevLog, failedCalls, run, portal, fileAtStart, summary, courses, years,
                   detailed_data, idx, attempt, slept, callLog,
                   previous_data, changes, emails, fileReads, raisedAt>>

\* save_current_data is called with the snapshot of this run (line 480).
Save ==
    /\ pc = "save"
    /\ \E result \in {"saved", "open_failed", "write_failed"} :
          /\ file' = save_current_data(file, detailed_data, result)
          /\ saveResult' = result
          /\ fileWrites' = IF result = "open_failed" THEN fileWrites
                           ELSE fileWrites + 1
    /\ pc' = "done"
    /\ outcome' = "completed"
    /\ lastCall' = <<0, FALSE>>
    /\ UNCHANGED <<prevLog, failedCalls, run, portal, fileAtStart, summary, courses, years,
                   detailed_data, idx, attempt, slept, callLog,
                   previous_data, changes, emails, fileReads, raisedAt>>

\* Lines 482-485: the top-level handler sends one error event.
Handler ==
    /\ pc = "handler"
    /\ \/ /\ \E delivered \in BOOLEAN :
                emails' = send_email(emails, <<ErrorEvent(raisedAt)>>, delivered)
          /\ pc' = "done"
          /\ outcome' = "error"
       \/ /\ pc' = "blocked"
          /\ UNCHANGED <<emails, outcome>>
    /\ lastCall' = <<0, FALSE>>
    /\ UNCHANGED <<prevLog, failedCalls, run, portal, file, fileAtStart, summary, courses, years,
                   detailed_data, idx, attempt, slept, callLog,
                   previous_data, changes, fileReads, fileWrites, saveResult,
                   raisedAt>>

Next ==
    \/ StartRun
    \/ AttemptSucceeds
    \/ AttemptFailsRetry
    \/ AttemptFailsLast
    \/ ExtractRaises
    \/ AbortNoCourses
    \/ BeginDetailed
    \/ LoadPrevious
    \/ DetectRaises
    \/ Detect
    \/ Notify
    \/ Save
    \/ Handler

Spec == Init /\ [][Next]_vars

----------------------------------------------------------------------------
(* Two runs in a row on an unchanged portal: the monitor is started again   *)
(* after a run that saved its snapshot, and the calls of that run are kept  *)
(* for the comparison of the two runs.                                      *)

FirstRun ==
    /\ pc = "idle"
    /\ StartRun

\* run_monitoring is entered again (line 448-454); the portal holds what it
\* held during the run before.
RepeatRun ==
    /\ pc = "done"
    /\ outcome = "completed"
    /\ saveResult = "saved"
    /\ run < MaxRuns
    /\ prevLog' = callLog
    /\ run' = run + 1
    /\ pc' = "summary"
    /\ fileAtStart' = file
    /\ summary' = EmptyObj
    /\ courses' = <<>>
    /\ years' = <<>>
    /\ detailed_data' = JNull
    /\ idx' = 1
    /\ attempt' = 0
    /\ slept' = 0
    /\ lastCall' = <<0, FALSE>>
    /\ callLog' = <<>>
    /\ previous_data' = JNull
    /\ changes' = <<>>
    /\ emails' = <<>>
    /\ fileReads' = 0
    /\ fileWrites' = 0
    /\ outcome' = "running"
    /\ saveResult' = "none"
    /\ raisedAt' = "none"
    /\ UNCHANGED <<portal, file, failedCalls>>

RepeatNext ==
    \/ FirstRun
    \/ RepeatRun
    \/ AttemptSucceeds
    \/ AttemptFailsRetry
    \/ AttemptFailsLast
    \/ ExtractRaises
    \/ AbortNoCourses
    \/ BeginDetailed
    \/ LoadPrevious
    \/ DetectRaises
    \/ Detect
    \/ Notify
    \/ Save
    \/ Handler

RepeatSpec == Init /\ [][RepeatNext]_vars

----------------------------------------------------------------------------
(* detect_changes and the grouping of send_email on their own: the run is   *)
(* entered at line 465 with a snapshot fetch_detailed_data can return and a *)
(* state file, both drawn from the sets below.                              *)

\* A list of n entries whose last entry was edited.
Edited(n) == JList([i \in 1..n |-> IF i = n THEN JNum(0) ELSE JNum(i)])
Lists == {Nums(n) : n \in 0..MaxLen} \cup {Edited(n) : n \in 1..MaxLen}

Map1(k, v) == JObj(<< <<k, v>> >>)
Map2(k1, v1, k2, v2) == JObj(<< <<k1, v1>>, <<k2, v2>> >>)

GradeRecs ==
    {Map2("detailed_grades", e, "midterm_results", m) : e, m \in Lists}
       \cup {Map1("detailed_grades", e) : e \in Lists}
AttRecs ==
    {Map2("detailed_attendance", e, "warning_courses", Nums(w)) :
        e \in Lists, w \in 0..MaxLen}
GPAs == {JNull, JStr("3.2"), JStr("3.5"), JNum(3), JStr("not graded")}
TransRecs ==
    {TransRec(g, n) : g \in GPAs, n \in 0..MaxLen}
       \cup {Map1("transcript_data", Nums(n)) : n \in 0..MaxLen}

\* Mappings of one key, and of two keys in both insertion orders.
GradeMaps ==
    {EmptyObj} \cup {Map1("CS101", r) : r \in GradeRecs}
       \cup {Map1("MA102", GradeRec(1, 0)),
             Map2("CS101", GradeRec(1, 1), "MA102", GradeRec(2, 0)),
             Map2("MA102", GradeRec(2, 0), "CS101", GradeRec(1, 1))}
AttMaps ==
    {EmptyObj} \cup {Map1("CS101", r) : r \in AttRecs}
       \cup {Map1("CS101", Nums(1)),
             Map2("CS101", AttRec(1, 1), "MA102", AttRec(2, 0)),
             Map2("MA102", AttRec(2, 0), "CS101", AttRec(1, 1))}
TransMaps ==
    {EmptyObj} \cup {Map1("2023/2024", r) : r \in TransRecs}
       \cup {Map2("2023/2024", TransRec(JStr("3.5"), 2),
                  "2021/2022", TransRec(JNull, 1)),
             Map2("2021/2022", TransRec(JNull, 1),
                  "2023/2024", TransRec(JStr("3.5"), 2))}

\* Lines 43-46 and 56: what make_api_request returns for a body, when no
\* attempt fails for another reason.
DataOf(body) ==
    IF IsObj(body) /\ Get(body, "status", JNull) = JStr("success")
    THEN Get(body, "data", EmptyObj)
    ELSE JNull

\* The summary mapping of a run on portal content p (line 109-110), and one
\* whose grades request failed.
SummaryOf(p) ==
    JObj(<< <<"grades", DataOf(Portals[p].grades)>>,
            <<"attendance", DataOf(Portals[p].attendance)>>,
            <<"transcript", DataOf(Portals[p].transcript)>> >>)
Summaries == {SummaryOf(1), SummaryOf(2), Put(SummaryOf(1), "grades", JNull)}

\* Lines 101-110 and 150: the shape of what fetch_detailed_data returns.
Snap(g, a, t, sm) ==
    JObj(<< <<"detailed_grades", g>>,
            <<"detailed_attendance", a>>,
            <<"detailed_transcripts", t>>,
            <<"summary", sm>> >>)

Grades0 == Map1("CS101", GradeRec(1, 1))
Attendance0 == Map1("CS101", AttRec(1, 0))
Transcripts0 == Map1("2023/2024", TransRec(JStr("3.2"), 1))

\* Snapshots that differ from one another in one mapping, and snapshots of
\* two courses and two years that differ in all of them.
Snapshots ==
    {Snap(g, Attendance0, Transcripts0, SummaryOf(1)) : g \in GradeMaps}
       \cup {Snap(Grades0, a, Transcripts0, SummaryOf(1)) : a \in AttMaps}
       \cup {Snap(Grades0, Attendance0, t, SummaryOf(1)) : t \in TransMaps}
       \cup {Snap(Grades0, Attendance0, Transcripts0, sm) : sm \in Summaries}
       \cup {Snap(Map2("CS101", GradeRec(2, 2), "MA102", GradeRec(2, 1)),
                  Map2("CS101", AttRec(2, 2), "MA102", AttRec(2, 1)),
                  Map2("2023/2024", TransRec(JStr("3.5"), 2),
                       "2021/2022", TransRec(JNum(3), 2)),
                  SummaryOf(2)),
             Snap(Map2("MA102", GradeRec(2, 1), "CS101", GradeRec(2, 2)),
                  Map2("MA102", AttRec(2, 1), "CS101", AttRec(2, 2)),
                  Map2("2021/2022", TransRec(JNum(3), 2),
                       "2023/2024", TransRec(JStr("3.5"), 2)),
                  SummaryOf(2))}

\* What the state file can hold: a saved snapshot, or JSON that is none.
Baselines ==
    Snapshots
       \cup {EmptyObj, EmptyList,
             Snap(Map1("CS101", JNull), Attendance0, Transcripts0,
                  SummaryOf(1))}

DetectInit ==
    /\ pc = "load"
    /\ run = 1
    /\ portal = 1
    /\ file \in {FileMissing} \cup {FileJson(json_dump(b)) : b \in Baselines}
    /\ fileAtStart = file
    /\ summary = EmptyObj
    /\ courses = <<>>
    /\ years = <<>>
    /\ detailed_data \in Snapshots
    /\ idx = 1
    /\ attempt = 0
    /\ slept = 0
    /\ lastCall = <<0, FALSE>>
    /\ callLog = <<>>
    /\ previous_data = JNull
    /\ changes = <<>>
    /\ emails = <<>>
    /\ fileReads = 0
    /\ fileWrites = 0
    /\ outcome = "running"
    /\ saveResult = "none"
    /\ raisedAt = "none"
    /\ failedCalls = 0
    /\ prevLog = <<>>

DetectNext ==
    \/ LoadPrevious
    \/ DetectRaises
    \/ Detect
    \/ Notify

DetectSpec == DetectInit /\ [][DetectNext]_vars

----------------------------------------------------------------------------
(* Properties *)

\* fetch_detailed_data has returned in this run.
Assembled ==
    /\ detailed_data # JNull
    /\ pc \in {"load", "detect", "notify", "save", "handler", "blocked",
              "done"}

NumCalls(endpoint, params) ==
    Cardinality({i \in 1..Len(callLog) :
                   /\ callLog[i].endpoint = endpoint
                   /\ callLog[i].params = params})

LastEntry == callLog[Len(callLog)]

\* The data field of the envelope the portal holds for a logged call.
HeldData(e) == Get(Envelope(portal, e.endpoint, e.params), "data", EmptyObj)

DetailCalls == SelectSeq(callLog, LAMBDA e : e.params # JNull)

Grades == Get(detailed_data, "detailed_grades", EmptyObj)
Attendance == Get(detailed_data, "detailed_attendance", EmptyObj)
Transcripts == Get(detailed_data, "detailed_transcripts", EmptyObj)

CourseSet == {courses[i] : i \in 1..Len(courses)}
YearTexts == {years[i].text : i \in 1..Len(years)}

\* C1 (as stated): a call makes at most 3 attempts, returns the data of the
\* first successful attempt, and returns None exactly when all 3 attempts
\* failed.
C1_AsStated ==
    lastCall[1] > 0 =>
        /\ lastCall[1] <= 3
        /\ lastCall[2] => LastEntry.data = HeldData(LastEntry)
        /\ LastEntry.data = JNull <=> (~lastCall[2] /\ lastCall[1] = 3)

\* C1 (amended): a call makes at most 3 attempts; it returns the data of the
\* first successful attempt and makes no attempt after it; it gives up only
\* after 3 failed attempts; it returns None exactly when all 3 attempts
\* failed or the first successful response carries a null data field; after
\* fail, fail, succeed it returns the successful payload at attempt 3.
C1_RetryBound ==
    /\ attempt \in 0..2
    /\ lastCall[1] > 0 =>
        /\ lastCall[1] \in 1..3
        /\ lastCall[2] => LastEntry.data = HeldData(LastEntry)
        /\ ~lastCall[2] => lastCall[1] = 3
        /\ LastEntry.exhausted = ~lastCall[2]
        /\ LastEntry.data = JNull <=>
              \/ ~lastCall[2] /\ lastCall[1] = 3
              \/ lastCall[2] /\ HeldData(LastEntry) = JNull

\* C1 witness: a call that failed twice and then returned a payload.
C1_Witness ==
    /\ lastCall = <<3, TRUE>>
    /\ Truthy(LastEntry.data)

\* The state file at the start of the run is no usable baseline.
SnapshotShaped(v) ==
    /\ IsObj(v)
    /\ \A key \in {"detailed_grades", "detailed_attendance",
                   "detailed_transcripts", "summary"} :
          HasKey(v, key) /\ IsObj(Get(v, key, JNull))
Malformed(f) ==
    \/ f = FileMissing
    \/ f = FileGarbage
    \/ f[1] = "json" /\ ~SnapshotShaped(json_load(f[2]))

\* C2: when the state file is missing, unparseable or malformed at the start
\* of a run, load_previous_data yields None, detect_changes emits the single
\* initial event and the run goes on to save a fresh baseline.
C2_FileNeverBlocks ==
    (Malformed(fileAtStart) /\ Assembled /\ pc # "load") =>
        /\ previous_data = JNull
        /\ raisedAt = "none"
        /\ pc \in {"notify", "save", "done"} => changes = <<InitialEvent>>
        /\ pc = "done" => outcome = "completed" /\ saveResult # "none"

\* C3 (as stated): a run that assembled a snapshot for C courses and Y years
\* made one unparameterized call per summary endpoint, 3 + 2*C + Y calls in
\* total.
C3_AsStated ==
    Assembled =>
        /\ \A i \in 1..3 : NumCalls(Endpoints[i], JNull) = 1
        /\ Len(callLog) = 3 + 2 * Len(courses) + Len(years)

\* C3 (amended): a run that discovers C >= 1 courses and Y years requests
\* each summary endpoint by exactly two unparameterized calls (one for the
\* discovery, one inside fetch_detailed_data), 6 + 2*C + Y calls in total; a
\* run that discovers no course makes the 3 discovery calls only.
C3_CallCount ==
    /\ Assembled =>
        /\ \A i \in 1..3 : NumCalls(Endpoints[i], JNull) = 2
        /\ Len(callLog) = 6 + 2 * Len(courses) + Len(years)
    /\ outcome = "aborted" =>
        /\ \A i \in 1..3 : NumCalls(Endpoints[i], JNull) = 1
        /\ Len(callLog) = 3

\* C3 witness: a snapshot assembled for two courses and one year, 11 calls.
C3_Witness ==
    /\ Assembled
    /\ Len(courses) = 2
    /\ Len(years) = 1
    /\ Len(callLog) = 11

\* C4: once discovery has yielded no course the run is over: 3 summary
\* calls, no parameterized call, no snapshot, the state file neither read
\* nor written, no change detection and no notification.
C4_NoCoursesAborts ==
    (run >= 1 /\ pc \notin {"summary", "extract"} /\ courses = <<>>
       /\ raisedAt = "none") =>
        /\ pc = "done"
        /\ outcome = "aborted"
        /\ Len(callLog) = 3
        /\ \A i \in 1..Len(callLog) : callLog[i].params = JNull
        /\ detailed_data = JNull
        /\ fileReads = 0
        /\ fileWrites = 0
        /\ file = fileAtStart
        /\ previous_data = JNull
        /\ changes = <<>>
        /\ emails = <<>>

\* C4 witness: a run aborted after all three summary requests failed.
C4_Witness ==
    /\ pc = "done"
    /\ outcome = "aborted"
    /\ Len(callLog) = 3
    /\ \A i \in 1..3 : callLog[i].exhausted

\* C5: with an absent baseline detect_changes returns exactly the initial
\* event, for every snapshot under assembly or assembled, whatever it holds
\* (no comparison is made, so none can raise or add an event).
C5_AbsentBaseline ==
    /\ detailed_data # JNull =>
          detect_changes(JNull, detailed_data) = <<"ok", <<InitialEvent>> >>
    /\ (pc \in {"notify", "save"} /\ previous_data = JNull) =>
          changes = <<InitialEvent>>

\* C5 witness: detection ran without a baseline on a snapshot holding grades
\* and a summary entry that is None.
C5_Witness ==
    /\ pc = "notify"
    /\ previous_data = JNull
    /\ changes = <<InitialEvent>>
    /\ Len(Grades[2]) > 0
    /\ \E i \in 1..3 :
          Get(Get(detailed_data, "summary", EmptyObj), Endpoints[i], EmptyObj) = JNull

\* C6: for every assembled snapshot S, detect_changes(S, S) is empty.
C6_SelfCompare ==
    Assembled => detect_changes(detailed_data, detailed_data) = <<"ok", <<>> >>

\* C6 witness: an assembled snapshot with a summary entry that is None and a
\* stored record.
C6_Witness ==
    /\ Assembled
    /\ Len(Attendance[2]) > 0
    /\ \E i \in 1..3 :
          Get(Get(detailed_data, "summary", EmptyObj), Endpoints[i], EmptyObj) = JNull

\* The parameterized calls a run makes for its courses and years, in order.
ExpectedDetailCalls ==
    LET C == Len(courses)
    IN [i \in 1..(2 * C + Len(years)) |->
          IF i <= C
          THEN <<"grades", <<"course_code", courses[i]>> >>
          ELSE IF i <= 2 * C
          THEN <<"attendance", <<"course_code", courses[i - C]>> >>
          ELSE <<"transcript", <<"year_value", years[i - 2 * C].value>> >>]

\* C7: in every run that gets past discovery each course gets exactly one
\* parameterized grades call and one attendance call and each year one
\* transcript call, whatever the other calls returned; a key is in the
\* snapshot exactly when its call returned a non-empty result, with that
\* result as its value.
C7_FailuresDoNotAbort ==
    Assembled =>
        LET C == Len(courses)
            d == DetailCalls
        IN /\ Len(d) = 2 * C + Len(years)
           /\ \A i \in 1..Len(d) :
                 <<d[i].endpoint, d[i].params>> = ExpectedDetailCalls[i]
           /\ \A i, j \in 1..C : i # j => courses[i] # courses[j]
           /\ \A i \in 1..C :
                 /\ HasItem(Grades, courses[i]) <=> Truthy(d[i].data)
                 /\ HasItem(Grades, courses[i]) =>
                       Item(Grades, courses[i], JNull) = d[i].data
                 /\ HasItem(Attendance, courses[i]) <=> Truthy(d[C + i].data)
                 /\ HasItem(Attendance, courses[i]) =>
                       Item(Attendance, courses[i], JNull) = d[C + i].data
           /\ \A i \in 1..Len(years) :
                 /\ HasItem(Transcripts, years[i].text)
                       <=> Truthy(d[2 * C + i].data)
                 /\ HasItem(Transcripts, years[i].text) =>
                       Item(Transcripts, years[i].text, JNull)
                          = d[2 * C + i].data

\* C8: when writing the state file fails the run still completes, the
\* notification was attempted before, no error event is produced and the
\* file keeps the content it had before the run.
C8_SaveFailureKeepsBaseline ==
    (pc = "done" /\ saveResult \in {"open_failed", "write_failed"}) =>
        /\ outcome = "completed"
        /\ raisedAt = "none"
        /\ changes # <<>> => (Len(emails) = 1 /\ emails[1][1] = changes)
        /\ changes = <<>> => emails = <<>>
        /\ file = fileAtStart

\* C9: an exception that escapes a step reaches the top-level handler,
\* which makes the only notification attempt of the run, carrying the one
\* error event; the state file is not written in that run.
C9_TopLevelHandler ==
    /\ raisedAt # "none" =>
          /\ pc \in {"handler", "blocked", "done"}
          /\ fileWrites = 0
          /\ saveResult = "none"
          /\ file = fileAtStart
    /\ pc = "handler" => (raisedAt # "none" /\ emails = <<>>)
    /\ (pc = "done" /\ raisedAt # "none") =>
          /\ outcome = "error"
          /\ Len(emails) = 1
          /\ emails[1][1] = <<ErrorEvent(raisedAt)>>
    /\ outcome = "error" => raisedAt # "none"

\* C9 witness: detect_changes raised and the handler sent the error event.
C9_Witness ==
    /\ pc = "done"
    /\ outcome = "error"
    /\ raisedAt = "detect"
    /\ Len(emails) = 1
    /\ fileAtStart # FileMissing

\* C10: the keys of the detailed mappings of a snapshot are courses and year
\* labels discovered in the same run whose call in this run returned the
\* stored value; no key comes from the baseline.
C10_KeysFromThisRun ==
    detailed_data # JNull =>
        /\ KeySet(Grades) \subseteq CourseSet
        /\ KeySet(Attendance) \subseteq CourseSet
        /\ KeySet(Transcripts) \subseteq YearTexts
        /\ \A code \in KeySet(Grades) :
              \E i \in 1..Len(callLog) :
                 /\ callLog[i].endpoint = "grades"
                 /\ callLog[i].params = <<"course_code", code>>
                 /\ callLog[i].data = Item(Grades, code, JNull)
        /\ \A code \in KeySet(Attendance) :
              \E i \in 1..Len(callLog) :
                 /\ callLog[i].endpoint = "attendance"
                 /\ callLog[i].params = <<"course_code", code>>
                 /\ callLog[i].data = Item(Attendance, code, JNull)
        /\ \A text \in KeySet(Transcripts) :
              \E i \in 1..Len(callLog), y \in 1..Len(years) :
                 /\ years[y].text = text
                 /\ callLog[i].endpoint = "transcript"
                 /\ callLog[i].params = <<"year_value", years[y].value>>
                 /\ callLog[i].data = Item(Transcripts, text, JNull)

\* C10 witness: the baseline holds a course and a year that this run did not
\* discover, and the assembled snapshot holds neither.
C10_Witness ==
    /\ pc = "detect"
    /\ previous_data = SavedSnapshot
    /\ KeySet(Grades) = {JNum(5)}
    /\ KeySet(Transcripts) = {JStr("2021/2022")}

\* All the calls of fetch_detailed_data have returned.
SnapshotComplete ==
    /\ Assembled
    /\ Len(callLog) = 6 + 2 * Len(courses) + Len(years)

\* The notification attempts a run has made once its notification step is
\* over: one attempt carrying the detected events, or none when there is no
\* event.
NotifiedOnce ==
    IF changes = <<>> THEN emails = <<>>
    ELSE Len(emails) = 1 /\ emails[1][1] = changes

\* C11 (as stated): a run that completes normally has assembled the
\* snapshot, then loaded and compared the baseline, then notified (only if
\* there is an event), then saved; the state file was read exactly once and
\* written exactly once.
C11_AsStated ==
    (pc = "done" /\ outcome = "completed") =>
        /\ SnapshotComplete
        /\ NotifiedOnce
        /\ fileReads = 1
        /\ fileWrites = 1

\* C11 (amended): the steps of a run that completes normally occur in the
\* order assemble, load, compare, notify (only if there is an event), save;
\* load_previous_data reads the state file once when the file exists and not
\* at all when it does not; save_current_data opens the file for writing
\* once, after the read, unless the open itself fails.
C11_StepOrder ==
    /\ pc = "load" =>
          /\ SnapshotComplete
          /\ fileReads = 0
          /\ previous_data = JNull
    /\ pc \in {"load", "detect"} => (changes = <<>> /\ emails = <<>>)
    /\ pc \in {"load", "detect", "notify", "save"} =>
          (fileWrites = 0 /\ file = fileAtStart /\ saveResult = "none")
    /\ pc \in {"detect", "notify", "save"} =>
          /\ SnapshotComplete
          /\ fileReads = (IF fileAtStart = FileMissing THEN 0 ELSE 1)
          /\ previous_data = load_previous_data(fileAtStart)
    /\ pc \in {"notify", "save"} =>
          changes = detect_changes(previous_data, detailed_data)[2]
    /\ pc = "notify" => (changes # <<>> /\ emails = <<>>)
    /\ pc = "save" => NotifiedOnce
    /\ (pc = "done" /\ outcome = "completed") =>
          /\ SnapshotComplete
          /\ fileReads = (IF fileAtStart = FileMissing THEN 0 ELSE 1)
          /\ previous_data = load_previous_data(fileAtStart)
          /\ changes = detect_changes(previous_data, detailed_data)[2]
          /\ NotifiedOnce
          /\ fileWrites = (IF saveResult = "open_failed" THEN 0 ELSE 1)
          /\ saveResult = "saved" => file = FileJson(json_dump(detailed_data))

\* C11 witness: a completed run that read a baseline, detected events,
\* attempted the notification once and saved the snapshot.
C11_Witness ==
    /\ pc = "done"
    /\ outcome = "completed"
    /\ previous_data = SavedSnapshot
    /\ changes # <<>>
    /\ Len(emails) = 1
    /\ fileReads = 1
    /\ fileWrites = 1
    /\ saveResult = "saved"

\* The sleep of the caller that follows the call logged last.
DelayAfterLastCall ==
    IF LastEntry.params = JNull THEN SummaryDelay ELSE DetailDelay

\* C15: whenever an attempt is about to be issued after another attempt of
\* the same run, a delay has elapsed since that attempt: the backoff delay
\* after a failed first or second attempt of the same call, the caller's
\* delay after the previous call; after a failed third attempt only the
\* caller's delay follows.
C15_DelayBetweenAttempts ==
    /\ (pc \in CallPhases /\ attempt > 0) =>
          (slept = RetryDelay /\ slept > 0)
    /\ (pc \in CallPhases /\ attempt = 0 /\ callLog # <<>>) =>
          (slept = DelayAfterLastCall /\ slept > 0)
    /\ lastCall[1] > 0 => slept = DelayAfterLastCall
    /\ (pc \in CallPhases /\ callLog = <<>>) => (attempt = 0 => slept = 0)

\* The answers a run got to one request, in the order of its calls.
ResponsesTo(log, request) ==
    SelectSeq(log, LAMBDA e : <<e.endpoint, e.params>> = request)

RequestsOf(log) == {<<log[i].endpoint, log[i].params>> : i \in 1..Len(log)}

\* This run is over with its calls, the run before it saved its snapshot,
\* and every request got the same answers in both runs.
SameResponses ==
    /\ prevLog # <<>>
    /\ SnapshotComplete
    /\ \A request \in RequestsOf(prevLog) \cup RequestsOf(callLog) :
          ResponsesTo(prevLog, request) = ResponsesTo(callLog, request)

\* C20: a run that follows a run with a successful save and gets the same
\* answers to every request raises nothing, detects no event, attempts no
\* notification, and the snapshot it saves is equal, as a JSON value (the
\* order of keys aside), to the baseline it found, after the round trip
\* through the state file.
C20_RepeatRunIsQuiet ==
    SameResponses =>
        /\ pc \in {"load", "detect", "save", "done"}
        /\ raisedAt = "none"
        /\ changes = <<>>
        /\ emails = <<>>
        /\ fileAtStart[1] = "json"
        /\ hash_data(json_load(fileAtStart[2])) = hash_data(detailed_data)
        /\ pc # "load" => hash_data(previous_data) = hash_data(detailed_data)
        /\ pc = "done" =>
              /\ outcome = "completed"
              /\ saveResult = "saved" =>
                    hash_data(json_load(file[2]))
                       = hash_data(json_load(fileAtStart[2]))
              /\ saveResult = "open_failed" => file = fileAtStart

----------------------------------------------------------------------------
(* Properties of detect_changes and of the grouping *)

\* detect_changes has returned the list held by changes, for a baseline that
\* is not None.
Compared ==
    /\ pc \in {"notify", "save"}
    /\ previous_data # JNull

OldMapping(mapping) == Get(previous_data, mapping, EmptyObj)
NewMapping(mapping) == Get(detailed_data, mapping, EmptyObj)

\* The record of a key in the current snapshot and in the baseline (missing
\* in the baseline: empty), and a list field of a record (missing: empty).
NewRecord(mapping, key) == Item(NewMapping(mapping), key, EmptyObj)
OldRecord(mapping, key) == Item(OldMapping(mapping), key, EmptyObj)
ListField(record, field) == Get(record, field, EmptyList)

GradeTags == {"grade_entries", "midterm", "grade_changes"}
AttendanceTags == {"attendance_entries", "warnings"}
TranscriptTags == {"gpa", "transcript_courses"}

\* The events of the given kinds that name the key, in the order of changes.
EventsOf(tags, key) ==
    SelectSeq(changes, LAMBDA e : e[1] \in tags /\ e[2] = key)

Count(event) == Cardinality({i \in 1..Len(changes) : changes[i] = event})

\* C12: a course of the current grades mapping whose grade-entry list is
\* longer than the baseline's by k > 0 and whose midterm-results list is the
\* baseline's gets exactly one grade event: "k new grade entries".
C12_NewGradeEntries ==
    Compared =>
        \A code \in KeySet(NewMapping("detailed_grades")) :
           LET new == NewRecord("detailed_grades", code)
               old == OldRecord("detailed_grades", code)
               k   == Len(ListField(new, "detailed_grades")[2])
                         - Len(ListField(old, "detailed_grades")[2])
           IN (/\ IsObj(new) /\ IsObj(old)
               /\ k > 0
               /\ ListField(new, "midterm_results")
                     = ListField(old, "midterm_results"))
              => EventsOf(GradeTags, code) = <<GradeEntriesEvent(code, k)>>

\* C12 witness: the baseline holds the course with one grade entry and one
\* midterm result; the current record has the same midterm results and one
\* grade entry more.
C12_Witness ==
    /\ Compared
    /\ HasKey(OldMapping("detailed_grades"), "CS101")
    /\ HasKey(NewMapping("detailed_grades"), "CS101")
    /\ IsObj(OldRecord("detailed_grades", JStr("CS101")))
    /\ ListField(OldRecord("detailed_grades", JStr("CS101")), "midterm_results")
          = Nums(1)
    /\ ListField(NewRecord("detailed_grades", JStr("CS101")), "midterm_results")
          = Nums(1)
    /\ ListField(OldRecord("detailed_grades", JStr("CS101")), "detailed_grades")
          = Nums(1)
    /\ ListField(NewRecord("detailed_grades", JStr("CS101")), "detailed_grades")
          = Nums(2)
    /\ changes = <<GradeEntriesEvent(JStr("CS101"), 1)>>

\* C13: a year of the current transcripts mapping whose record differs from
\* the baseline's gets exactly one GPA event when the GPA values differ, and
\* the text of that event holds the old and the new value; it gets no GPA
\* event when the GPA values are equal.
C13_GpaEvent ==
    Compared =>
        \A year \in KeySet(NewMapping("detailed_transcripts")) :
           LET new == NewRecord("detailed_transcripts", year)
               old == OldRecord("detailed_transcripts", year)
               new_gpa == Get(new, "gpa", JNull)
               old_gpa == Get(old, "gpa", JNull)
               event == GpaEvent(year, old_gpa, new_gpa)
           IN (IsObj(new) /\ IsObj(old) /\ hash_data(new) # hash_data(old))
              => /\ new_gpa # old_gpa =>
                      /\ EventsOf({"gpa"}, year) = <<event>>
                      /\ Contains(Render(old_gpa), Text(event))
                      /\ Contains(Render(new_gpa), Text(event))
                 /\ new_gpa = old_gpa => EventsOf({"gpa"}, year) = <<>>

\* C13 witness: the records of 2023/2024 differ only in the GPA, 3.2 in the
\* baseline and 3.5 now, and the one event reports both.
C13_Witness ==
    /\ Compared
    /\ OldMapping("detailed_transcripts")
          = Map1("2023/2024", TransRec(JStr("3.2"), 1))
    /\ NewMapping("detailed_transcripts")
          = Map1("2023/2024", TransRec(JStr("3.5"), 1))
    /\ changes = <<GpaEvent(JStr("2023/2024"), JStr("3.2"), JStr("3.5"))>>
    /\ Contains(Chars("3.2"), Text(changes[1]))
    /\ Contains(Chars("3.5"), Text(changes[1]))

\* The place of an event in the order of detect_changes: its group, and the
\* position of its key in the mapping of the current snapshot it comes from.
Group(e) ==
    CASE e[1] = "summary" -> 1
      [] e[1] \in GradeTags -> 2
      [] e[1] \in AttendanceTags -> 3
      [] e[1] \in TranscriptTags -> 4
MappingOfGroup(g) ==
    CASE g = 2 -> "detailed_grades"
      [] g = 3 -> "detailed_attendance"
      [] g = 4 -> "detailed_transcripts"
Position(mapping, key) ==
    CHOOSE i \in 1..Len(NewMapping(mapping)[2]) :
        KeyOf(NewMapping(mapping)[2][i]) = key

\* C14: in the list detect_changes returns for a present baseline the
\* summary events come first, then the grade events, then the attendance
\* events, then the transcript events, and inside each of the three groups
\* the events follow the key order of the current snapshot's mapping.
C14_EventOrder ==
    Compared =>
        \A i, j \in 1..Len(changes) :
           i < j =>
              /\ Group(changes[i]) <= Group(changes[j])
              /\ (Group(changes[i]) = Group(changes[j])
                    /\ Group(changes[i]) > 1) =>
                    Position(MappingOfGroup(Group(changes[i])), changes[i][2])
                       <= Position(MappingOfGroup(Group(changes[j])),
                                   changes[j][2])

\* C14 witness: events of all four groups, the grade and the attendance
\* events for two courses, MA102 before CS101 as in the current snapshot.
C14_Witness ==
    /\ Compared
    /\ \A g \in 1..4 : \E i \in 1..Len(changes) : Group(changes[i]) = g
    /\ KeyOf(NewMapping("detailed_grades")[2][1]) = JStr("MA102")
    /\ \E i, j \in 1..Len(changes) :
          /\ i < j
          /\ changes[i][1] \in GradeTags /\ changes[i][2] = JStr("MA102")
          /\ changes[j][1] \in GradeTags /\ changes[j][2] = JStr("CS101")
    /\ \E i, j \in 1..Len(changes) :
          /\ i < j
          /\ changes[i][1] \in AttendanceTags /\ changes[i][2] = JStr("MA102")
          /\ changes[j][1] \in AttendanceTags /\ changes[j][2] = JStr("CS101")
    /\ \E i, j \in 1..Len(changes) :
          /\ i < j
          /\ changes[i][1] \in TranscriptTags /\ changes[i][2] = JStr("2021/2022")
          /\ changes[j][1] \in TranscriptTags /\ changes[j][2] = JStr("2023/2024")

\* C16: for every course of the current grades mapping "grade changes
\* detected" is emitted (once) exactly when its midterm-results list differs
\* from the baseline's (a missing one is empty) and "new midterm results"
\* (once) exactly when it is longer; a "new midterm results" event is
\* directly followed by the "grade changes detected" event of its course.
C16_MidtermEvents ==
    Compared =>
        /\ \A code \in KeySet(NewMapping("detailed_grades")) :
              LET new == NewRecord("detailed_grades", code)
                  old == OldRecord("detailed_grades", code)
                  new_midterms == ListField(new, "midterm_results")
                  old_midterms == ListField(old, "midterm_results")
              IN (IsObj(new) /\ IsObj(old)) =>
                    /\ Count(GradeChangesEvent(code))
                          = (IF new_midterms # old_midterms THEN 1 ELSE 0)
                    /\ Count(MidtermEvent(code))
                          = (IF Len(new_midterms[2]) > Len(old_midterms[2])
                             THEN 1 ELSE 0)
        /\ \A i \in 1..Len(changes) :
              changes[i][1] = "midterm" =>
                 /\ i < Len(changes)
                 /\ changes[i + 1] = GradeChangesEvent(changes[i][2])

\* C16 witness: the midterm-results list of a course got longer and nothing
\* else changed: "new midterm results", then "grade changes detected".
C16_Witness ==
    /\ Compared
    /\ OldMapping("detailed_grades")
          = Map1("CS101", Map2("detailed_grades", Nums(1),
                               "midterm_results", Nums(1)))
    /\ NewMapping("detailed_grades")
          = Map1("CS101", Map2("detailed_grades", Nums(1),
                               "midterm_results", Nums(2)))
    /\ changes = <<MidtermEvent(JStr("CS101")), GradeChangesEvent(JStr("CS101"))>>

\* C17: a course whose grade-entry list differs from the baseline's in
\* content but is not longer, with the midterm-results list unchanged, gets
\* no grade event although the hashes of the two records differ.
C17_SilentGradeEdit ==
    Compared =>
        \A code \in KeySet(NewMapping("detailed_grades")) :
           LET new == NewRecord("detailed_grades", code)
               old == OldRecord("detailed_grades", code)
               new_detailed == ListField(new, "detailed_grades")
               old_detailed == ListField(old, "detailed_grades")
           IN (/\ IsObj(new) /\ IsObj(old)
               /\ new_detailed # old_detailed
               /\ Len(new_detailed[2]) <= Len(old_detailed[2])
               /\ ListField(new, "midterm_results")
                     = ListField(old, "midterm_results"))
              => /\ hash_data(new) # hash_data(old)
                 /\ EventsOf(GradeTags, code) = <<>>

\* C17 witness: the last of two grade entries was edited, nothing else
\* changed, and no event at all is reported.
C17_Witness ==
    /\ Compared
    /\ OldMapping("detailed_grades")
          = Map1("CS101", Map2("detailed_grades", Nums(2),
                               "midterm_results", Nums(1)))
    /\ NewMapping("detailed_grades")
          = Map1("CS101", Map2("detailed_grades", Edited(2),
                               "midterm_results", Nums(1)))
    /\ changes = <<>>
    /\ pc = "save"

\* The events a record gives when it is compared against an empty record.
Seq1If(cond, event) == IF cond THEN <<event>> ELSE <<>>
GradeEventsFromEmpty(code, record) ==
    LET entries  == Len(ListField(record, "detailed_grades")[2])
        midterms == Len(ListField(record, "midterm_results")[2])
    IN Seq1If(entries > 0, GradeEntriesEvent(code, entries))
          \o Seq1If(midterms > 0, MidtermEvent(code))
          \o Seq1If(midterms > 0, GradeChangesEvent(code))
AttendanceEventsFromEmpty(code, record) ==
    LET entries  == Len(ListField(record, "detailed_attendance")[2])
        warnings == Len(ListField(record, "warning_courses")[2])
    IN Seq1If(entries > 0, AttendanceEntriesEvent(code, entries))
          \o Seq1If(warnings > 0, WarningEvent(code))
TranscriptEventsFromEmpty(year, record) ==
    LET gpa == Get(record, "gpa", JNull)
        n   == Len(ListField(record, "transcript_data")[2])
    IN Seq1If(gpa # JNull, GpaEvent(year, JNull, gpa))
          \o Seq1If(n > 0, TranscriptCoursesEvent(year, n))

\* C18: every per-course and per-year event names a key of the current
\* snapshot's mapping, so a key that only the baseline holds gets no event;
\* a key that only the current snapshot holds gets the events of a
\* comparison of its record against an empty record.
C18_CurrentKeysOnly ==
    Compared =>
        /\ \A i \in 1..Len(changes) :
              Group(changes[i]) > 1 =>
                 changes[i][2]
                    \in KeySet(NewMapping(MappingOfGroup(Group(changes[i]))))
        /\ \A key \in KeySet(OldMapping("detailed_grades"))
                         \ KeySet(NewMapping("detailed_grades")) :
              EventsOf(GradeTags, key) = <<>>
        /\ \A key \in KeySet(OldMapping("detailed_attendance"))
                         \ KeySet(NewMapping("detailed_attendance")) :
              EventsOf(AttendanceTags, key) = <<>>
        /\ \A key \in KeySet(OldMapping("detailed_transcripts"))
                         \ KeySet(NewMapping("detailed_transcripts")) :
              EventsOf(TranscriptTags, key) = <<>>
        /\ \A key \in KeySet(NewMapping("detailed_grades"))
                         \ KeySet(OldMapping("detailed_grades")) :
              IsObj(NewRecord("detailed_grades", key)) =>
                 EventsOf(GradeTags, key)
                    = GradeEventsFromEmpty(key, NewRecord("detailed_grades", key))
        /\ \A key \in KeySet(NewMapping("detailed_attendance"))
                         \ KeySet(OldMapping("detailed_attendance")) :
              IsObj(NewRecord("detailed_attendance", key)) =>
                 EventsOf(AttendanceTags, key)
                    = AttendanceEventsFromEmpty(
                          key, NewRecord("detailed_attendance", key))
        /\ \A key \in KeySet(NewMapping("detailed_transcripts"))
                         \ KeySet(OldMapping("detailed_transcripts")) :
              IsObj(NewRecord("detailed_transcripts", key)) =>
                 EventsOf(TranscriptTags, key)
                    = TranscriptEventsFromEmpty(
                          key, NewRecord("detailed_transcripts", key))

\* C18 witness: the baseline holds grades for MA102 only and the current
\* snapshot for CS101 only: the dropped course gets no event, the new course
\* gets the events of its whole record.
C18_Witness ==
    /\ Compared
    /\ OldMapping("detailed_grades") = Map1("MA102", GradeRec(1, 0))
    /\ NewMapping("detailed_grades") = Map1("CS101", GradeRec(1, 1))
    /\ changes = <<GradeEntriesEvent(JStr("CS101"), 1), MidtermEvent(JStr("CS101")),
                   GradeChangesEvent(JStr("CS101"))>>

\* The list send_email has grouped.
Notified ==
    /\ pc = "save"
    /\ Len(emails) = 1

\* The number of entries of a bucket that are the event c.
CountIn(bucket, c) == Cardinality({i \in 1..Len(bucket) : bucket[i] = c})

AllWords == GradeWords \o AttendanceWords \o TranscriptWords

\* No GPA value reported by an event of the list holds a category keyword.
GpaValuesKeywordFree(list) ==
    \A i \in 1..Len(list) :
       list[i][1] = "gpa" =>
          \A w \in 1..Len(AllWords) :
             /\ ~Contains(Chars(AllWords[w]), Lower(Render(list[i][3])))
             /\ ~Contains(Chars(AllWords[w]), Lower(Render(list[i][4])))

\* C19 (as stated): every event of detect_changes, for course codes and year
\* labels without a category keyword, is in exactly one of the four buckets,
\* so the four counts add up to the number of events; the initial event is
\* in Other.
C19_AsStated ==
    Notified =>
        LET list == emails[1][1]
            g == grade_changes(list)
            a == attendance_changes(list)
            t == transcript_changes(list)
            o == other_changes(list)
        IN /\ Len(g) + Len(a) + Len(t) + Len(o) = Len(list)
           /\ \A i \in 1..Len(list) :
                 CountIn(g, list[i]) + CountIn(a, list[i])
                    + CountIn(t, list[i]) + CountIn(o, list[i]) = 1
           /\ list = <<InitialEvent>> => o = list

\* C19 (amended): every event of detect_changes is in at least one bucket;
\* when neither the course codes and year labels nor the GPA values that the
\* events report hold a category keyword, it is in exactly one, so the four
\* counts add up to the number of events; the initial event is in Other.
C19_Grouping ==
    Notified =>
        LET list == emails[1][1]
            g == grade_changes(list)
            a == attendance_changes(list)
            t == transcript_changes(list)
            o == other_changes(list)
        IN /\ Len(g) + Len(a) + Len(t) + Len(o) >= Len(list)
           /\ \A i \in 1..Len(list) :
                 CountIn(g, list[i]) + CountIn(a, list[i])
                    + CountIn(t, list[i]) + CountIn(o, list[i]) >= 1
           /\ GpaValuesKeywordFree(list) =>
                 /\ Len(g) + Len(a) + Len(t) + Len(o) = Len(list)
                 /\ \A i \in 1..Len(list) :
                       CountIn(g, list[i]) + CountIn(a, list[i])
                          + CountIn(t, list[i]) + CountIn(o, list[i]) = 1
           /\ list = <<InitialEvent>> => o = list

\* C19 witness: a notification with events in the Grades, Attendance and
\* Transcript buckets, two of them with two keywords of their bucket, and
\* GPA values without a keyword.
C19_Witness ==
    /\ Notified
    /\ GpaValuesKeywordFree(emails[1][1])
    /\ Len(grade_changes(emails[1][1])) > 0
    /\ Len(attendance_changes(emails[1][1])) > 0
    /\ Len(transcript_changes(emails[1][1])) > 0
    /\ \E i, j, k \in 1..Len(emails[1][1]) :
          /\ emails[1][1][i][1] = "warnings"
          /\ emails[1][1][j][1] = "transcript_courses"
          /\ emails[1][1][k][1] = "gpa"

----------------------------------------------------------------------------
(* Properties of two runs in a row on an unchanged portal *)

\* The portal holds a successful answer for the request of a logged call.
HoldsSuccess(e) ==
    LET env == Envelope(portal, e.endpoint, e.params)
    IN IsObj(env) /\ Get(env, "status", JNull) = JStr("success")

\* The calls of a log that exhausted their attempts although the portal
\* holds a successful answer: the transient failures of that run.
Transient(log) ==
    SelectSeq(log, LAMBDA e : e.exhausted /\ HoldsSuccess(e))

\* Where a logged call was made: the discovery (the first three calls of a
\* run), the second fetch of the summary, or a per-course / per-year call.
Refetches(log) ==
    {i \in 4..Len(log) : log[i].params = JNull}
RefetchFailed(log) ==
    {log[i].endpoint : i \in {j \in Refetches(log) :
                                log[j].exhausted /\ HoldsSuccess(log[j])}}
CourseFailed(log) ==
    {e.params[2] : e \in {log[i] : i \in {j \in 1..Len(log) :
         /\ log[j].exhausted
         /\ HoldsSuccess(log[j])
         /\ log[j].params # JNull
         /\ log[j].params[1] = "course_code"}}}
EndpointFailed(log) ==
    {log[i].endpoint : i \in {j \in 1..Len(log) :
         /\ log[j].exhausted
         /\ HoldsSuccess(log[j])
         /\ log[j].params = JNull}}

\* This run follows a run on the same portal content that saved its
\* snapshot, it has discovered a course and called detect_changes on its
\* snapshot and that baseline, and over the two runs exactly one call failed
\* transiently.
OneFailureCompared ==
    /\ prevLog # <<>>
    /\ \/ raisedAt = "none" /\ pc \in {"notify", "save", "blocked"}
       \/ raisedAt = "none" /\ pc = "done" /\ outcome = "completed"
       \/ raisedAt = "detect" /\ pc \in {"handler", "blocked", "done"}
    /\ Len(Transient(prevLog)) + Len(Transient(callLog)) = 1

\* C21 (as stated): with unchanged portal content, when the requests for one
\* summary endpoint or for one course exhaust their retries in one run,
\* neither that run nor the run after it emits an event about that endpoint
\* or course.
C21_AsStated ==
    OneFailureCompared =>
        /\ \A e \in EndpointFailed(prevLog) \cup EndpointFailed(callLog) :
              Count(SummaryEvent(e)) = 0
        /\ \A c \in CourseFailed(prevLog) \cup CourseFailed(callLog) :
              EventsOf(GradeTags \cup AttendanceTags, c) = <<>>

\* The one transient failure of the two runs.
TheFailure ==
    IF Transient(callLog) # <<>> THEN Transient(callLog)[1]
    ELSE Transient(prevLog)[1]

\* The events a run detects for a summary that one of the two snapshots
\* holds as None, and for a record that the baseline does not hold.
EventsOfAbsentSummary(f) ==
    Seq1If(HeldData(f) # JNull, SummaryEvent(f.endpoint))
EventsOfAbsentRecord(f) ==
    IF ~Truthy(HeldData(f)) THEN <<>>
    ELSE IF f.endpoint = "grades"
         THEN GradeEventsFromEmpty(f.params[2], HeldData(f))
         ELSE AttendanceEventsFromEmpty(f.params[2], HeldData(f))

\* The events of a run about what the call f asked for: the summary event
\* of its endpoint, or the events of its course or of its year.
EventsAbout(f) ==
    IF f.params = JNull
    THEN SelectSeq(changes, LAMBDA e : e = SummaryEvent(f.endpoint))
    ELSE IF f.params[1] = "course_code"
    THEN EventsOf(IF f.endpoint = "grades" THEN GradeTags ELSE AttendanceTags,
                  f.params[2])
    ELSE SelectSeq(changes,
            LAMBDA e : /\ e[1] \in TranscriptTags
                       /\ \E i \in 1..Len(years) :
                             /\ years[i].value = f.params[2]
                             /\ years[i].text = e[2])

\* C21 (amended): with unchanged portal content and one transient failure,
\* in a run that discovers a course,
\* (a) a failed per-course or per-year call, or a failed discovery call,
\*     leaves the run of the failure without any event about that course,
\*     year or endpoint;
\* (b) a failed second fetch of a summary endpoint stores None, and the run
\*     of the failure reports that summary as updated unless the portal's
\*     data for it is null;
\* (c) the run after a failed second fetch reports that summary as updated
\*     again (same exception);
\* (d) the run after a failed per-course call compares the record it now
\*     fetches with an empty record and reports the events of that
\*     comparison for the course;
\* (e) when detect_changes raises instead of returning, (b), (c) and (d)
\*     do not apply: the run reports no change event, the top-level handler
\*     makes the one notification attempt, with the error event, and the
\*     state file is not written.
C21_FailureEvents ==
    OneFailureCompared =>
        LET f == TheFailure
        IN /\ (Transient(callLog) # <<>> /\ RefetchFailed(callLog) = {}) =>
                 EventsAbout(f) = <<>>
           /\ (RefetchFailed(callLog) # {} /\ raisedAt = "none") =>
                 EventsAbout(f) = EventsOfAbsentSummary(f)
           /\ (RefetchFailed(prevLog) # {} /\ raisedAt = "none") =>
                 EventsAbout(f) = EventsOfAbsentSummary(f)
           /\ (CourseFailed(prevLog) # {} /\ raisedAt = "none") =>
                 EventsAbout(f) = EventsOfAbsentRecord(f)
           /\ raisedAt = "detect" =>
                 /\ changes = <<>>
                 /\ file = fileAtStart
                 /\ pc = "handler" => emails = <<>>
                 /\ pc = "done" =>
                       /\ Len(emails) = 1
                       /\ emails[1][1] = <<ErrorEvent("detect")>>

\* C21 witness: the second fetch of a summary endpoint failed in this run
\* and the run reports the summary as updated.
C21_Witness ==
    /\ OneFailureCompared
    /\ RefetchFailed(callLog) # {}
    /\ changes = <<SummaryEvent(TheFailure.endpoint)>>
    /\ pc = "done"

----------------------------------------------------------------------------
(* Properties of the run as a whole *)

\* The notification attempt of this run failed.
DeliveryFailed ==
    /\ Len(emails) = 1
    /\ ~emails[1][2]

\* C22 (as stated): in a run whose notification attempt fails the snapshot
\* is not saved as the new baseline: the state file is left as it was.
C22_AsStated ==
    (pc = "done" /\ outcome = "completed" /\ DeliveryFailed) =>
        /\ fileWrites = 0
        /\ file = fileAtStart

\* C22 (amended): the baseline is advanced whether or not the events were
\* delivered.  A run that completes normally has called save_current_data
\* with its snapshot after the notification attempt, also when that attempt
\* failed; when the write succeeds the state file holds the serialisation
\* of the snapshot, and the baseline the next run loads is what json.load
\* gives back for it.
C22_SavedWhateverDelivery ==
    /\ pc = "save" => (saveResult = "none" /\ file = fileAtStart)
    /\ (pc = "done" /\ outcome = "completed") =>
          /\ saveResult \in {"saved", "open_failed", "write_failed"}
          /\ file = save_current_data(fileAtStart, detailed_data, saveResult)
          /\ saveResult = "saved" =>
                load_previous_data(file) = json_load(json_dump(detailed_data))

\* C22 witness: the notification of detected events failed and the snapshot
\* replaced the baseline all the same.
C22_Witness ==
    /\ pc = "done"
    /\ outcome = "completed"
    /\ DeliveryFailed
    /\ emails[1][1] = changes
    /\ previous_data = SavedSnapshot
    /\ saveResult = "saved"
    /\ file # fileAtStart
    /\ load_previous_data(file) = detailed_data

\* The steps of a run in progress: every action but the start of a run.
RunStep ==
    \/ AttemptSucceeds
    \/ AttemptFailsRetry
    \/ AttemptFailsLast
    \/ ExtractRaises
    \/ AbortNoCourses
    \/ BeginDetailed
    \/ LoadPrevious
    \/ DetectRaises
    \/ Detect
    \/ Notify
    \/ Save
    \/ Handler

\* An upper bound of the HTTP attempts the run has issued so far: every
\* returned call made at most 3 attempts, the call in progress has made
\* attempt of them.
AttemptsIssuedAtMost == 3 * Len(callLog) + attempt

\* The three final states of a run.
FinalState ==
    \/ /\ outcome = "aborted"
       /\ courses = <<>>
       /\ emails = <<>>
       /\ saveResult = "none"
    \/ /\ outcome = "completed"
       /\ courses # <<>>
       /\ saveResult \in {"saved", "open_failed", "write_failed"}
    \/ /\ outcome = "error"
       /\ saveResult = "none"
       /\ Len(emails) = 1
       /\ emails[1][1] = <<ErrorEvent(raisedAt)>>

\* The attempts of a run are bounded and a run that ends is in a final
\* state.
BoundedAndFinal ==
    /\ attempt < 3
    /\ lastCall[1] <= 3
    /\ AttemptsIssuedAtMost <= 3 * (6 + 2 * Len(courses) + Len(years))
    /\ pc = "done" => FinalState

\* C23: every run terminates whatever the portal, the mail server and the
\* file system do: it issues at most 3 * (6 + 2*C + Y) HTTP attempts and
\* ends as aborted on zero courses, completed with a save attempt, or ended
\* by the top-level handler after one notification attempt; so a run that
\* has not ended can always take its next step.
C23_RunTerminates ==
    /\ BoundedAndFinal
    /\ pc \notin {"idle", "done"} => ENABLED RunStep

====
